---- MODULE Spec2Model ----
(***************************************************************************)
(* Render orchestration of Tideflow (src-tauri/src/renderer.rs): the three *)
(* render entry points render_markdown, export_markdown and render_typst,  *)
(* the global RENDER_MUTEX and LAST_RENDER_TIMES locks, the shared .build  *)
(* directory, the external Typst compiler process, the source-map builder  *)
(* (renderer.rs build_source_map, preprocessor.rs attach_pdf_positions) and *)
(* the warm-up compile of preloader.rs.                                    *)
(***************************************************************************)
EXTENDS Integers, Sequences, FiniteSets, TLC

(***************************************************************************)
(* Bounds of the model.                                                    *)
(***************************************************************************)
\* ticks (of 10 seconds) the clock of one compiler process is followed for
MaxElapsed == 4
\* entries in the JSON array printed by one `typst query`
MaxQueryEntries == 1

(***************************************************************************)
(* Program constants.                                                      *)
(***************************************************************************)
\* Duration::from_secs(30), in ticks of 10 seconds
CompileTimeout == 3

Tasks == {"t1", "t2"}
NoTask == "none"

\* file_path arguments: stem and extension
Files == {[stem |-> "a", ext |-> "md"], [stem |-> "c", ext |-> "txt"]}
NoFile == [stem |-> "-", ext |-> "-"]

\* what one compiler process writes to stdout/stderr
Outputs == {"e1", "e2"}

\* the behaviours one `typst compile` process can have: its exit status,
\* whether it leaves the output file, what it prints, and whether what it
\* prints exceeds the capacity of an OS pipe
CompilerRuns ==
    {[exit |-> 0, pdf |-> TRUE, out |-> "", big |-> FALSE],
     [exit |-> 0, pdf |-> FALSE, out |-> "", big |-> FALSE]}
    \cup {[exit |-> 1, pdf |-> FALSE, out |-> o, big |-> b] :
              o \in Outputs, b \in BOOLEAN}

NoRun == [exit |-> 0, pdf |-> FALSE, out |-> "", big |-> FALSE]
\* no exit status read yet
NoStatus == -1
NoProc == [state |-> "none", run |-> NoRun, pipes |-> "none"]

\* a file of the build directory that does not exist
Absent == [owner |-> NoTask, src |-> "none", tokens |-> FALSE]

\* names of the compiled outputs
PreviewPdf == <<"preview", "-", 0>>
FinalPdf(f) == <<"final", f.stem, 0>>
TempPdf(u) == <<"temp", u[1], u[2]>>
PreloadPdf == <<"preload", "-", 0>>

(***************************************************************************)
(* Anchors and the source map.                                             *)
(***************************************************************************)
DocStart == [id |-> "tf-doc-start", offset |-> 0, line |-> 0, column |-> 0]
Anchor1 == [id |-> "tf-5-1", offset |-> 5, line |-> 1, column |-> 0]
Anchor2 == [id |-> "tf-9-2", offset |-> 9, line |-> 1, column |-> 4]

\* anchor lists preprocess_markdown hands to the renderer; the document-start
\* anchor is always the first entry
AnchorLists == {<<DocStart>>, <<DocStart, Anchor1>>, <<DocStart, Anchor1, Anchor2>>}

PdfPositions == {[page |-> 1, x |-> 10, y |-> 20], [page |-> 2, x |-> 0, y |-> 5]}

\* labels a query can report; only those starting with "tf-" are anchors
QueryLabels == {"tf-doc-start", "tf-5-1", "tf-9-2", "fig-1"}
StartsWithTf(label) == label \in {"tf-doc-start", "tf-5-1", "tf-9-2"}

\* one element of the JSON array: the label found in it (if any) and the
\* location found in it (if any); <<>> is None, <<v>> is Some(v)
QueryEntries ==
    [label : {<<>>} \cup {<<l>> : l \in QueryLabels},
     loc : {<<>>} \cup {<<p>> : p \in PdfPositions}]

RECURSIVE SeqsUpTo(_, _)
SeqsUpTo(S, n) ==
    IF n = 0 THEN {<<>>}
    ELSE LET shorter == SeqsUpTo(S, n - 1)
         IN shorter \cup {Append(s, e) : s \in {q \in shorter : Len(q) = n - 1}, e \in S}

\* what the query process can print: unparsable bytes or a JSON array
Unparsable == <<[label |-> <<"!">>, loc |-> <<>>]>>
QueryStdouts == SeqsUpTo(QueryEntries, MaxQueryEntries) \cup {Unparsable}

\* a HashMap<String, PdfPosition> is a function on the set of its keys
EmptyMap == [k \in {} |-> <<>>]
MapInsert(m, k, v) == [x \in (DOMAIN m) \cup {k} |-> IF x = k THEN v ELSE m[x]]

RECURSIVE pdf_positions_loop(_, _)
pdf_positions_loop(entries, map) ==
    IF entries = <<>> THEN map
    ELSE LET entry == Head(entries)
             next == IF entry.label # <<>> /\ StartsWithTf(entry.label[1]) /\ entry.loc # <<>>
                     THEN MapInsert(map, entry.label[1], entry.loc[1])
                     ELSE map
         IN pdf_positions_loop(Tail(entries), next)

\* Result of pdf_positions_from_query: <<"err">> or <<"ok", map>>
pdf_positions_from_query(stdout) ==
    IF stdout = Unparsable THEN <<"err", EmptyMap>>
    ELSE <<"ok", pdf_positions_loop(stdout, EmptyMap)>>

\* a join that keeps only the anchors the query resolved
attach_pdf_positions_inner_join(anchorList, positions) ==
    LET resolved == SelectSeq(anchorList, LAMBDA a : a.id \in DOMAIN positions)
    IN [i \in 1..Len(resolved) |->
           [id |-> resolved[i].id,
            editor |-> [offset |-> resolved[i].offset,
                        line |-> resolved[i].line,
                        column |-> resolved[i].column],
            pdf |-> <<positions[resolved[i].id]>>]]

attach_pdf_positions(anchorList, positions) ==
    [i \in 1..Len(anchorList) |->
        [id |-> anchorList[i].id,
         editor |-> [offset |-> anchorList[i].offset,
                     line |-> anchorList[i].line,
                     column |-> anchorList[i].column],
         pdf |-> IF anchorList[i].id \in DOMAIN positions
                 THEN <<positions[anchorList[i].id]>>
                 ELSE <<>>]]

\* outcomes of Command::output() for `typst query`
NoQuery == [spawned |-> FALSE, success |-> FALSE, stdout |-> <<>>]
QueryOutcomes ==
    {NoQuery}
    \cup {[spawned |-> TRUE, success |-> s, stdout |-> o] :
              s \in BOOLEAN, o \in QueryStdouts}

\* a builder that gives up with an empty payload when the query fails
build_source_map_give_up(anchorList, q) ==
    IF anchorList = <<>> THEN <<>>
    ELSE LET parsed == pdf_positions_from_query(q.stdout)
         IN IF q.spawned /\ q.success /\ parsed[1] = "ok"
            THEN attach_pdf_positions(anchorList, parsed[2])
            ELSE <<>>

build_source_map(anchorList, q) ==
    IF anchorList = <<>> THEN <<>>
    ELSE LET parsed == pdf_positions_from_query(q.stdout)
             pdf_lookup == IF q.spawned /\ q.success /\ parsed[1] = "ok"
                           THEN parsed[2]
                           ELSE EmptyMap
         IN attach_pdf_positions(anchorList, pdf_lookup)

(***************************************************************************)
(* State.                                                                  *)
(***************************************************************************)
VARIABLES
    pc,              \* position of each task in the function it runs
    kind,            \* which function the task runs
    arg,             \* file_path of render_markdown / export_markdown
    renderLock,      \* holder of RENDER_MUTEX
    lockQueue,       \* tasks suspended in RENDER_MUTEX.lock().await, FIFO
    timesLock,       \* holder of the LAST_RENDER_TIMES mutex
    lastRenderTimes, \* keys of the LAST_RENDER_TIMES map
    contentMd,       \* .build/content.md
    prefsJson,       \* .build/prefs.json
    tempMd,          \* the temp_<uuid>.md files in .build
    pdfs,            \* compiled outputs that exist
    tideflowTyp,     \* .build/tideflow.typ exists
    preloadTyp,      \* .build/preload.typ exists
    proc,            \* the compiler child process of each task
    elapsed,         \* ticks since the child process was spawned
    failOut,         \* what the process whose non-zero exit was observed printed
    exitStatus,      \* the exit status the call has read from its compiler process
    anchors,         \* preprocess.anchors of the call
    query,           \* what Command::output() of `typst query` gave the call
    result,          \* what the call returned
    fnInput,         \* arguments of the text function that is called on its own
    fnOutput,        \* what that function returned
    documentCache,   \* DOCUMENT_CACHE: file path -> <<>> or <<DocumentCache>>
    cacheLock,       \* the task that holds the DOCUMENT_CACHE mutex
    cacheFile,       \* render_cache.json: <<>> or <<the map it holds>>
    irPc,            \* position of each task in the IncrementalRenderer method it runs
    irCall,          \* the method, its arguments and the modification times it meets
    irResult,        \* what the method returned
    prefsFile,       \* prefs.json of the content directory: <<>> or <<Preferences>>
    prefsVersion,    \* PREFS_VERSION
    prefsWrites,     \* the payloads of the prefs-write events, as emitted
    pfPc,            \* position of each task in the preferences command it runs
    pfCall,          \* the command, the preferences it holds and the saves it has left
    fileAge,         \* per path: -1 without the file, else the ms since it was last written
    lastModifiedTimes, \* keys of LAST_MODIFIED_TIMES (its values are never read)
    debounceTimers,  \* DEBOUNCE_TIMERS: path -> <<>> or <<ms since the timer was set>>
    spawnedEmits,    \* paths of the spawned tasks that have not emitted file-changed yet
    unreported,      \* per path: written and no file-changed event emitted since
    edits,           \* number of writes and removals so far
    wPc,             \* position of the watcher thread
    coverImage,      \* cover_image of the prefs.json of the content directory
    imageFiles,      \* the image files that exist outside the assets directory
    imageFormat,     \* what detect_image_format finds in an image: <<>> or <<ext>>
    assetsFiles,     \* names of the files of the assets directory
    buildCover,      \* cover_image of .build/prefs.json: <<>> or <<path>>
    renders          \* number of preference setups so far

vars == <<pc, kind, arg, renderLock, lockQueue, timesLock, lastRenderTimes,
          contentMd, prefsJson, tempMd, pdfs, tideflowTyp, preloadTyp, proc,
          elapsed, failOut, exitStatus, anchors, query, result, fnInput, fnOutput,
          documentCache, cacheLock, cacheFile, irPc, irCall, irResult,
          prefsFile, prefsVersion, prefsWrites, pfPc, pfCall,
          fileAge, lastModifiedTimes, debounceTimers, spawnedEmits, unreported, edits, wPc,
          coverImage, imageFiles, imageFormat, assetsFiles, buildCover, renders>>

files == <<contentMd, prefsJson, tempMd, pdfs, tideflowTyp, preloadTyp>>
child == <<proc, elapsed, exitStatus>>
call == <<kind, arg>>
locals == <<anchors, query, failOut>>
pure == <<fnInput, fnOutput>>
incremental == <<documentCache, cacheLock, cacheFile, irPc, irCall, irResult>>
preferences == <<prefsFile, prefsVersion, prefsWrites, pfPc, pfCall>>
watcher == <<fileAge, lastModifiedTimes, debounceTimers, spawnedEmits, unreported, edits, wPc>>
cover == <<coverImage, imageFiles, imageFormat, assetsFiles, buildCover, renders>>
components == <<incremental, preferences, watcher, cover>>
orchestration == <<pc, call, renderLock, lockQueue, timesLock, lastRenderTimes,
                   files, child, locals, result>>

\* no text function has been called on its own
NoInput == [fn |-> "none"]
NoOutput == [fn |-> "none"]

NoResult == [status |-> "none", stage |-> "", out |-> "", pdf |-> <<>>, map |-> <<>>]
Err(stage) == [status |-> "err", stage |-> stage, out |-> "", pdf |-> <<>>, map |-> <<>>]
ErrOut(stage, out) == [status |-> "err", stage |-> stage, out |-> out, pdf |-> <<>>, map |-> <<>>]
Ok(pdf, map) == [status |-> "ok", stage |-> "", out |-> "", pdf |-> <<pdf>>, map |-> map]
OkUnit == [status |-> "ok", stage |-> "", out |-> "", pdf |-> <<>>, map |-> <<>>]

\* uuid::Uuid::new_v4(): one per call, and a task makes one call
uuid(t) == <<t, 1>>

\* no IncrementalRenderer exists
NoRenderer ==
    /\ documentCache = <<>>
    /\ cacheLock = NoTask
    /\ cacheFile = <<>>
    /\ irPc = <<>>
    /\ irCall = <<>>
    /\ irResult = <<>>

\* no preferences command is in use
NoPreferences ==
    /\ prefsFile = <<>>
    /\ prefsVersion = 0
    /\ prefsWrites = <<>>
    /\ pfPc = <<>>
    /\ pfCall = <<>>

\* the file watcher has not been started
NoWatcher ==
    /\ fileAge = <<>>
    /\ lastModifiedTimes = {}
    /\ debounceTimers = <<>>
    /\ spawnedEmits = {}
    /\ unreported = <<>>
    /\ edits = 0
    /\ wPc = "none"

\* no preference setup has run
NoCover ==
    /\ coverImage = <<>>
    /\ imageFiles = {}
    /\ imageFormat = <<>>
    /\ assetsFiles = {}
    /\ buildCover = <<>>
    /\ renders = 0

\* no component beside the render commands is in use
Idle ==
    /\ NoRenderer
    /\ NoPreferences
    /\ NoWatcher
    /\ NoCover

\* no render command has been called
NoRenders ==
    /\ pc = [t \in Tasks |-> "idle"]
    /\ kind = [t \in Tasks |-> "none"]
    /\ arg = [t \in Tasks |-> NoFile]
    /\ renderLock = NoTask
    /\ lockQueue = <<>>
    /\ timesLock = NoTask
    /\ lastRenderTimes = {}
    /\ contentMd = Absent
    /\ prefsJson = Absent
    /\ tempMd = {}
    /\ pdfs = {}
    /\ tideflowTyp = FALSE
    /\ preloadTyp = FALSE
    /\ proc = [t \in Tasks |-> NoProc]
    /\ elapsed = [t \in Tasks |-> 0]
    /\ failOut = [t \in Tasks |-> ""]
    /\ exitStatus = [t \in Tasks |-> NoStatus]
    /\ anchors = [t \in Tasks |-> <<>>]
    /\ query = [t \in Tasks |-> NoQuery]
    /\ result = [t \in Tasks |-> NoResult]

\* no operation has been called
NoCalls ==
    /\ NoRenders
    /\ Idle

Init ==
    /\ NoCalls
    /\ fnInput = NoInput
    /\ fnOutput = NoOutput

(***************************************************************************)
(* Locks.  tokio::sync::Mutex is fair: lock().await queues the caller, and *)
(* a guard is released when it goes out of scope, on every return path.    *)
(***************************************************************************)
\* a return path on which the render guard is leaked
DropGuards_leak(t) ==
    /\ timesLock' = IF timesLock = t THEN NoTask ELSE timesLock
    /\ UNCHANGED <<renderLock, lockQueue, pure, components>>

\* the guards `_lock` and `last_render_times` of task t go out of scope
DropGuards(t) ==
    /\ renderLock' = IF renderLock = t THEN NoTask ELSE renderLock
    /\ timesLock' = IF timesLock = t THEN NoTask ELSE timesLock
    /\ UNCHANGED <<lockQueue, pure, components>>

\* the function returns r; its locals are dropped
Return(t, r) ==
    /\ pc' = [pc EXCEPT ![t] = "done"]
    /\ result' = [result EXCEPT ![t] = r]
    /\ anchors' = [anchors EXCEPT ![t] = <<>>]
    /\ query' = [query EXCEPT ![t] = NoQuery]
    /\ failOut' = [failOut EXCEPT ![t] = ""]
    /\ DropGuards(t)

\* the function goes on to the statement at label
Goto(t, label) ==
    /\ pc' = [pc EXCEPT ![t] = label]
    /\ UNCHANGED <<result, renderLock, lockQueue, timesLock, pure, components>>

Continue(t, label) == Goto(t, label) /\ UNCHANGED locals

\* RENDER_MUTEX.lock().await is reached: the caller queues for the lock
Enqueue(t) ==
    /\ pc' = [pc EXCEPT ![t] = "wait"]
    /\ lockQueue' = Append(lockQueue, t)
    /\ UNCHANGED <<result, renderLock, timesLock, locals, pure, components>>

\* a lock that lets a caller in while it is held
Acquire_no_exclusion(t) ==
    /\ pc[t] = "wait"
    /\ lockQueue # <<>>
    /\ Head(lockQueue) = t
    /\ renderLock' = t
    /\ lockQueue' = Tail(lockQueue)
    /\ pc' = [pc EXCEPT ![t] = "locked"]
    /\ UNCHANGED <<call, timesLock, lastRenderTimes, files, child, locals, result, pure, components>>

\* RENDER_MUTEX.lock().await completes
Acquire(t) ==
    /\ pc[t] = "wait"
    /\ renderLock = NoTask
    /\ lockQueue # <<>>
    /\ Head(lockQueue) = t
    /\ renderLock' = t
    /\ lockQueue' = Tail(lockQueue)
    /\ pc' = [pc EXCEPT ![t] = "locked"]
    /\ UNCHANGED <<call, timesLock, lastRenderTimes, files, child, locals, result, pure, components>>

(***************************************************************************)
(* Steps shared by the render functions.                                   *)
(***************************************************************************)
IsMarkdown(f) == f.ext = "md" \/ f.ext = "qmd"

\* entry of render_markdown / export_markdown up to RENDER_MUTEX.lock()
CallWithFile(t, k, f, exists) ==
    /\ pc[t] = "idle"
    /\ kind' = [kind EXCEPT ![t] = k]
    /\ arg' = [arg EXCEPT ![t] = f]
    /\ IF ~IsMarkdown(f) THEN Return(t, Err("not-markdown"))
       ELSE IF ~exists THEN Return(t, Err("no-file"))
       ELSE Enqueue(t)
    /\ UNCHANGED <<lastRenderTimes, files, child, pure, components>>

\* utils::get_content_dir and fs::create_dir_all(&build_dir)
BuildDirStep(t, k, from, next, fail) ==
    /\ pc[t] = from
    /\ kind[t] = k
    /\ IF fail THEN Return(t, Err("build-dir")) ELSE Continue(t, next)
    /\ UNCHANGED <<call, lastRenderTimes, files, child, pure, components>>

\* copy of the canonical prefs.json into the build directory
PrefsStep(t, k, next, canonicalExists, fail) ==
    /\ pc[t] = "prefs"
    /\ kind[t] = k
    /\ IF canonicalExists /\ fail
       THEN Return(t, Err("prefs")) /\ UNCHANGED prefsJson
       ELSE /\ Continue(t, next)
            /\ prefsJson' = IF canonicalExists
                            THEN [owner |-> t, src |-> "canonical", tokens |-> FALSE]
                            ELSE prefsJson
    /\ UNCHANGED <<call, lastRenderTimes, contentMd, tempMd, pdfs, tideflowTyp,
                   preloadTyp, child, pure, components>>

\* the markdown preprocess_markdown returns carries the anchor label markup
PreprocessedContent(t, src) == [owner |-> t, src |-> src, tokens |-> TRUE]

\* fs::read_to_string, preprocess_markdown, rewrite_image_paths_in_markdown
\* and fs::write(build_dir.join("content.md"))
ContentStep(t, k, anchorList, fail) ==
    /\ pc[t] = "content"
    /\ kind[t] = k
    /\ IF fail
       THEN Return(t, Err("content")) /\ UNCHANGED contentMd
       ELSE /\ Goto(t, "template")
            /\ contentMd' = PreprocessedContent(t, arg[t].stem)
            /\ anchors' = [anchors EXCEPT ![t] = anchorList]
            /\ UNCHANGED <<query, failOut, pure, components>>
    /\ UNCHANGED <<call, lastRenderTimes, prefsJson, tempMd, pdfs, tideflowTyp,
                   preloadTyp, child, pure, components>>

\* copy of tideflow.typ and of the themes directory
TemplateStep(t, k, next, templateExists, fail) ==
    /\ pc[t] = "template"
    /\ kind[t] = k
    /\ IF ~templateExists THEN Return(t, Err("template")) /\ UNCHANGED tideflowTyp
       ELSE IF fail THEN Return(t, Err("template-copy")) /\ UNCHANGED tideflowTyp
       ELSE Continue(t, next) /\ tideflowTyp' = TRUE
    /\ UNCHANGED <<call, lastRenderTimes, contentMd, prefsJson, tempMd, pdfs,
                   preloadTyp, child, pure, components>>

\* utils::get_typst_path
TypstPathStep(t, k, from, next, found) ==
    /\ pc[t] = from
    /\ kind[t] = k
    /\ IF found THEN Continue(t, next) ELSE Return(t, Err("typst-path"))
    /\ UNCHANGED <<call, lastRenderTimes, files, child, pure, components>>

\* Command::spawn of `typst compile`; pipes says whether the parent reads the
\* child's stdout and stderr while it waits
SpawnCompile(t, run, pipes) ==
    /\ proc' = [proc EXCEPT ![t] = [state |-> "running", run |-> run, pipes |-> pipes]]
    /\ elapsed' = [elapsed EXCEPT ![t] = 0]
    /\ UNCHANGED exitStatus

\* a child that has filled a pipe nobody reads is blocked in write()
CanExit(p) == p.state = "running" /\ ~(p.pipes = "unread" /\ p.run.big)

\* the files the child leaves when it exits
Compiled(p, output) == IF p.run.pdf THEN pdfs \cup {output} ELSE pdfs

\* the wait for the child ends: it has exited and its status is read
ChildExit(t, output) ==
    /\ CanExit(proc[t])
    /\ pdfs' = Compiled(proc[t], output)
    /\ proc' = [proc EXCEPT ![t] = NoProc]
    /\ elapsed' = [elapsed EXCEPT ![t] = 0]
    /\ exitStatus' = [exitStatus EXCEPT ![t] = proc[t].run.exit]

\* Command::status() with piped stdout and stderr
StatusSpawnStep(t, k, spawned, run) ==
    /\ pc[t] = "spawn"
    /\ kind[t] = k
    /\ IF spawned
       THEN Continue(t, "compile") /\ SpawnCompile(t, run, "unread")
       ELSE Return(t, Err("spawn")) /\ UNCHANGED child
    /\ UNCHANGED <<call, lastRenderTimes, files, pure, components>>

\* status() returns
StatusExitStep(t, k, output) ==
    /\ pc[t] = "compile"
    /\ kind[t] = k
    /\ ChildExit(t, output)
    /\ IF proc[t].run.exit = 0
       THEN Continue(t, "check")
       ELSE /\ Goto(t, "rerun")
            /\ failOut' = [failOut EXCEPT ![t] = proc[t].run.out]
            /\ UNCHANGED <<anchors, query, pure, components>>
    /\ UNCHANGED <<call, lastRenderTimes, contentMd, prefsJson, tempMd, tideflowTyp,
                   preloadTyp, pure, components>>

\* after a non-zero status the same command is run again with output()
RerunSpawnStep(t, k, spawned, run) ==
    /\ pc[t] = "rerun"
    /\ kind[t] = k
    /\ IF spawned
       THEN Continue(t, "rerunning") /\ SpawnCompile(t, run, "drained")
       ELSE Return(t, Err("spawn")) /\ UNCHANGED child
    /\ UNCHANGED <<call, lastRenderTimes, files, pure, components>>

\* output() of the second run returns; the error is built from the first
\* run's status and the second run's stdout and stderr
RerunExitStep(t, k, output) ==
    /\ pc[t] = "rerunning"
    /\ kind[t] = k
    /\ CanExit(proc[t])
    /\ pdfs' = Compiled(proc[t], output)
    /\ proc' = [proc EXCEPT ![t] = NoProc]
    /\ elapsed' = [elapsed EXCEPT ![t] = 0]
    /\ Return(t, ErrOut("compile", proc[t].run.out))
    /\ UNCHANGED <<call, lastRenderTimes, contentMd, prefsJson, tempMd, tideflowTyp,
                   preloadTyp, exitStatus, pure, components>>

\* a check that trusts the exit status
OutputCheckStep_trusting(t, k, output, next) ==
    /\ pc[t] = "check"
    /\ kind[t] = k
    /\ Continue(t, next)

\* the output file is looked for after a zero exit status
OutputCheckStep(t, k, output, next) ==
    /\ pc[t] = "check"
    /\ kind[t] = k
    /\ IF output \in pdfs THEN Continue(t, next) ELSE Return(t, Err("missing-output"))

\* build_source_map runs `typst query` unless there are no anchors
QueryStep(t, k) ==
    /\ pc[t] = "query"
    /\ kind[t] = k
    /\ \E q \in (IF anchors[t] = <<>> THEN {NoQuery} ELSE QueryOutcomes) :
          query' = [query EXCEPT ![t] = q]
    /\ Goto(t, "mapping")
    /\ UNCHANGED <<call, lastRenderTimes, files, child, anchors, failOut, pure, components>>

\* the rest of build_source_map and Ok(document)
SourceMapStep(t, k, output) ==
    /\ pc[t] = "mapping"
    /\ kind[t] = k
    /\ Return(t, Ok(output, build_source_map(anchors[t], query[t])))
    /\ UNCHANGED <<call, lastRenderTimes, files, child, pure, components>>

\* time passes while a child process runs
Tick(t) ==
    /\ proc[t].state = "running"
    /\ elapsed[t] < MaxElapsed
    /\ elapsed' = [elapsed EXCEPT ![t] = @ + 1]
    /\ UNCHANGED <<pc, call, renderLock, lockQueue, timesLock, lastRenderTimes, files,
                   proc, exitStatus, locals, result, pure, components>>

(***************************************************************************)
(* render_markdown                                                         *)
(***************************************************************************)
RM_Call(t) == \E f \in Files, exists \in BOOLEAN : CallWithFile(t, "preview", f, exists)

\* fs::metadata(file_path)?.modified()?
RM_Metadata(t) ==
    /\ pc[t] = "locked"
    /\ kind[t] = "preview"
    /\ \E fail \in BOOLEAN :
          IF fail THEN Return(t, Err("metadata")) ELSE Continue(t, "times")
    /\ UNCHANGED <<call, lastRenderTimes, files, child, pure, components>>

\* LAST_RENDER_TIMES.lock().await
RM_LockTimes(t) ==
    /\ pc[t] = "times"
    /\ kind[t] = "preview"
    /\ timesLock = NoTask
    /\ timesLock' = t
    /\ pc' = [pc EXCEPT ![t] = "mkdir"]
    /\ UNCHANGED <<call, renderLock, lockQueue, lastRenderTimes, files, child, locals,
                   result, pure, components>>

RM_BuildDir(t) == \E fail \in BOOLEAN : BuildDirStep(t, "preview", "mkdir", "prefs", fail)

RM_Prefs(t) == \E ce \in BOOLEAN, fail \in BOOLEAN : PrefsStep(t, "preview", "content", ce, fail)

RM_Content(t) == \E al \in AnchorLists, fail \in BOOLEAN : ContentStep(t, "preview", al, fail)

RM_Template(t) == \E te \in BOOLEAN, fail \in BOOLEAN : TemplateStep(t, "preview", "typst", te, fail)

RM_TypstPath(t) == \E found \in BOOLEAN : TypstPathStep(t, "preview", "typst", "spawn", found)

RM_Spawn(t) == \E spawned \in BOOLEAN, run \in CompilerRuns : StatusSpawnStep(t, "preview", spawned, run)

RM_CompileExit(t) == StatusExitStep(t, "preview", PreviewPdf)

RM_RerunSpawn(t) == \E spawned \in BOOLEAN, run \in CompilerRuns : RerunSpawnStep(t, "preview", spawned, run)

RM_RerunExit(t) == RerunExitStep(t, "preview", PreviewPdf)

\* preview_pdf.exists() and last_render_times.insert
RM_Check(t) ==
    /\ OutputCheckStep(t, "preview", PreviewPdf, "query")
    /\ lastRenderTimes' = IF PreviewPdf \in pdfs
                          THEN lastRenderTimes \cup {arg[t]}
                          ELSE lastRenderTimes
    /\ UNCHANGED <<call, files, child, pure, components>>

RM_Query(t) == QueryStep(t, "preview")

RM_SourceMap(t) == SourceMapStep(t, "preview", PreviewPdf)

(***************************************************************************)
(* export_markdown                                                         *)
(***************************************************************************)
EM_Call(t) == \E f \in Files, exists \in BOOLEAN : CallWithFile(t, "export", f, exists)

EM_BuildDir(t) == \E fail \in BOOLEAN : BuildDirStep(t, "export", "locked", "prefs", fail)

EM_Prefs(t) == \E ce \in BOOLEAN, fail \in BOOLEAN : PrefsStep(t, "export", "content", ce, fail)

EM_Content(t) == \E al \in AnchorLists, fail \in BOOLEAN : ContentStep(t, "export", al, fail)

EM_Template(t) == \E te \in BOOLEAN, fail \in BOOLEAN : TemplateStep(t, "export", "typst", te, fail)

EM_TypstPath(t) == \E found \in BOOLEAN : TypstPathStep(t, "export", "typst", "spawn", found)

EM_Spawn(t) == \E spawned \in BOOLEAN, run \in CompilerRuns : StatusSpawnStep(t, "export", spawned, run)

EM_CompileExit(t) == StatusExitStep(t, "export", FinalPdf(arg[t]))

EM_RerunSpawn(t) == \E spawned \in BOOLEAN, run \in CompilerRuns : RerunSpawnStep(t, "export", spawned, run)

EM_RerunExit(t) == RerunExitStep(t, "export", FinalPdf(arg[t]))

\* final_pdf.exists(), the "exported" event and Ok(final_pdf)
EM_Check(t) ==
    /\ pc[t] = "check"
    /\ kind[t] = "export"
    /\ IF FinalPdf(arg[t]) \in pdfs
       THEN Return(t, Ok(FinalPdf(arg[t]), <<>>))
       ELSE Return(t, Err("missing-output"))
    /\ UNCHANGED <<call, lastRenderTimes, files, child, pure, components>>

(***************************************************************************)
(* render_typst                                                            *)
(***************************************************************************)
RT_Call(t) ==
    /\ pc[t] = "idle"
    /\ kind' = [kind EXCEPT ![t] = "adhoc"]
    /\ Enqueue(t)
    /\ UNCHANGED <<arg, lastRenderTimes, files, child, pure, components>>

RT_TypstPath(t) == \E found \in BOOLEAN : TypstPathStep(t, "adhoc", "locked", "mkdir", found)

RT_BuildDir(t) == \E fail \in BOOLEAN : BuildDirStep(t, "adhoc", "mkdir", "temp", fail)

\* preprocess_markdown, rewrite_image_paths_in_markdown and
\* fs::write(&temp_content_path)
RT_WriteTemp(t) ==
    /\ pc[t] = "temp"
    /\ kind[t] = "adhoc"
    /\ \E al \in AnchorLists, fail \in BOOLEAN :
          IF fail
          THEN Return(t, Err("temp")) /\ UNCHANGED tempMd
          ELSE /\ Goto(t, "prefs")
               /\ tempMd' = tempMd \cup {uuid(t)}
               /\ anchors' = [anchors EXCEPT ![t] = al]
               /\ UNCHANGED <<query, failOut, pure, components>>
    /\ UNCHANGED <<call, lastRenderTimes, contentMd, prefsJson, pdfs, tideflowTyp,
                   preloadTyp, child, pure, components>>

RT_Prefs(t) == \E ce \in BOOLEAN, fail \in BOOLEAN : PrefsStep(t, "adhoc", "content", ce, fail)

\* fs::copy(&temp_content_path, build_dir.join("content.md"))
RT_Content(t) ==
    /\ pc[t] = "content"
    /\ kind[t] = "adhoc"
    /\ \E fail \in BOOLEAN :
          IF fail
          THEN Return(t, Err("content")) /\ UNCHANGED contentMd
          ELSE Continue(t, "template") /\ contentMd' = PreprocessedContent(t, "adhoc")
    /\ UNCHANGED <<call, lastRenderTimes, prefsJson, tempMd, pdfs, tideflowTyp,
                   preloadTyp, child, pure, components>>

RT_Template(t) == \E te \in BOOLEAN, fail \in BOOLEAN : TemplateStep(t, "adhoc", "spawn", te, fail)

\* Command::output(): the parent reads both pipes until the child exits
RT_Spawn(t) ==
    /\ pc[t] = "spawn"
    /\ kind[t] = "adhoc"
    /\ \E spawned \in BOOLEAN, run \in CompilerRuns :
          IF spawned
          THEN Continue(t, "compile") /\ SpawnCompile(t, run, "drained")
          ELSE Return(t, Err("spawn")) /\ UNCHANGED child
    /\ UNCHANGED <<call, lastRenderTimes, files, pure, components>>

\* output() returns, the temporary content file is removed and the exit
\* status is looked at
RT_CompileExit(t) ==
    /\ pc[t] = "compile"
    /\ kind[t] = "adhoc"
    /\ ChildExit(t, TempPdf(uuid(t)))
    /\ tempMd' = tempMd \ {uuid(t)}
    /\ IF proc[t].run.exit = 0
       THEN Continue(t, "check")
       ELSE Return(t, ErrOut("compile", proc[t].run.out))
    /\ UNCHANGED <<call, lastRenderTimes, contentMd, prefsJson, tideflowTyp, preloadTyp, pure, components>>

RT_Check(t) ==
    /\ OutputCheckStep(t, "adhoc", TempPdf(uuid(t)), "query")
    /\ UNCHANGED <<call, lastRenderTimes, files, child, pure, components>>

RT_Query(t) == QueryStep(t, "adhoc")

RT_SourceMap(t) == SourceMapStep(t, "adhoc", TempPdf(uuid(t)))

(***************************************************************************)
(* preload_typst_environment                                               *)
(***************************************************************************)
\* the test document and the minimal preferences of the warm-up compile
PreloadContent(t) == [owner |-> t, src |-> "preload", tokens |-> FALSE]

\* get_typst_path, get_content_dir and fs::create_dir_all(&build_dir)
PL_Call(t) ==
    /\ pc[t] = "idle"
    /\ kind' = [kind EXCEPT ![t] = "preload"]
    /\ \E found \in BOOLEAN, fail \in BOOLEAN :
          IF ~found THEN Return(t, OkUnit)
          ELSE IF fail THEN Return(t, Err("build-dir"))
          ELSE Continue(t, "pl_content")
    /\ UNCHANGED <<arg, lastRenderTimes, files, child, pure, components>>

\* fs::write(build_dir.join("content.md"), test_content)
PL_WriteContent(t) ==
    /\ pc[t] = "pl_content"
    /\ \E fail \in BOOLEAN :
          IF fail
          THEN Return(t, Err("content")) /\ UNCHANGED contentMd
          ELSE Continue(t, "pl_prefs") /\ contentMd' = PreloadContent(t)
    /\ UNCHANGED <<call, lastRenderTimes, prefsJson, tempMd, pdfs, tideflowTyp,
                   preloadTyp, child, pure, components>>

\* fs::write(build_dir.join("prefs.json"), prefs_json)
PL_WritePrefs(t) ==
    /\ pc[t] = "pl_prefs"
    /\ \E fail \in BOOLEAN :
          IF fail
          THEN Return(t, Err("prefs")) /\ UNCHANGED prefsJson
          ELSE Continue(t, "pl_template") /\ prefsJson' = PreloadContent(t)
    /\ UNCHANGED <<call, lastRenderTimes, contentMd, tempMd, pdfs, tideflowTyp,
                   preloadTyp, child, pure, components>>

\* fs::write(build_dir.join("preload.typ"), template_content)
PL_WriteTemplate(t) ==
    /\ pc[t] = "pl_template"
    /\ \E fail \in BOOLEAN :
          IF fail
          THEN Return(t, Err("template")) /\ UNCHANGED preloadTyp
          ELSE Continue(t, "pl_spawn") /\ preloadTyp' = TRUE
    /\ UNCHANGED <<call, lastRenderTimes, contentMd, prefsJson, tempMd, pdfs,
                   tideflowTyp, child, pure, components>>

\* Command::output() of the warm-up compile; a spawn error is only printed
PL_Spawn(t) ==
    /\ pc[t] = "pl_spawn"
    /\ \E spawned \in BOOLEAN, run \in CompilerRuns :
          IF spawned
          THEN Continue(t, "pl_compile") /\ SpawnCompile(t, run, "drained")
          ELSE Continue(t, "pl_cleanup") /\ UNCHANGED child
    /\ UNCHANGED <<call, lastRenderTimes, files, pure, components>>

\* output() returns; success or failure is only printed
PL_CompileExit(t) ==
    /\ pc[t] = "pl_compile"
    /\ ChildExit(t, PreloadPdf)
    /\ Continue(t, "pl_cleanup")
    /\ UNCHANGED <<call, lastRenderTimes, contentMd, prefsJson, tempMd, tideflowTyp,
                   preloadTyp, pure, components>>

\* fs::remove_file(build_dir.join("content.md"))
PL_RemoveContent(t) ==
    /\ pc[t] = "pl_cleanup"
    /\ contentMd' = Absent
    /\ Continue(t, "pl_cleanup2")
    /\ UNCHANGED <<call, lastRenderTimes, prefsJson, tempMd, pdfs, tideflowTyp,
                   preloadTyp, child, pure, components>>

\* the remaining remove_file calls and Ok(())
PL_RemoveRest(t) ==
    /\ pc[t] = "pl_cleanup2"
    /\ prefsJson' = Absent
    /\ preloadTyp' = FALSE
    /\ pdfs' = pdfs \ {PreloadPdf}
    /\ Return(t, OkUnit)
    /\ UNCHANGED <<call, lastRenderTimes, contentMd, tempMd, tideflowTyp, child, pure, components>>

(***************************************************************************)
(* Specification.                                                          *)
(***************************************************************************)
Next ==
    \E t \in Tasks :
        \/ Acquire(t)
        \/ RM_Call(t)
        \/ RM_Metadata(t)
        \/ RM_LockTimes(t)
        \/ RM_BuildDir(t)
        \/ RM_Prefs(t)
        \/ RM_Content(t)
        \/ RM_Template(t)
        \/ RM_TypstPath(t)
        \/ RM_Spawn(t)
        \/ RM_CompileExit(t)
        \/ RM_RerunSpawn(t)
        \/ RM_RerunExit(t)
        \/ RM_Check(t)
        \/ RM_Query(t)
        \/ RM_SourceMap(t)
        \/ EM_Call(t)
        \/ EM_BuildDir(t)
        \/ EM_Prefs(t)
        \/ EM_Content(t)
        \/ EM_Template(t)
        \/ EM_TypstPath(t)
        \/ EM_Spawn(t)
        \/ EM_CompileExit(t)
        \/ EM_RerunSpawn(t)
        \/ EM_RerunExit(t)
        \/ EM_Check(t)
        \/ RT_Call(t)
        \/ RT_TypstPath(t)
        \/ RT_BuildDir(t)
        \/ RT_WriteTemp(t)
        \/ RT_Prefs(t)
        \/ RT_Content(t)
        \/ RT_Template(t)
        \/ RT_Spawn(t)
        \/ RT_CompileExit(t)
        \/ RT_Check(t)
        \/ RT_Query(t)
        \/ RT_SourceMap(t)
        \/ PL_Call(t)
        \/ PL_WriteContent(t)
        \/ PL_WritePrefs(t)
        \/ PL_WriteTemplate(t)
        \/ PL_Spawn(t)
        \/ PL_CompileExit(t)
        \/ PL_RemoveContent(t)
        \/ PL_RemoveRest(t)

Spec == Init /\ [][Next]_vars

\* the same program observed with a clock
NextClock ==
    \/ Next
    \/ \E t \in Tasks : Tick(t)

SpecClock == Init /\ [][NextClock]_vars

(***************************************************************************)
(* The source-map builder on its own: a render that has compiled and run   *)
(* its query, for every anchor list and every query outcome.               *)
(***************************************************************************)
\* anchors after the document-start anchor
MaxAnchors == 2
Anchor3 == [id |-> "tf-9-3", offset |-> 9, line |-> 2, column |-> 0]
AnchorPool == {Anchor1, Anchor2, Anchor3}

NoRepeat(q) == \A i, j \in 1..Len(q) : i # j => q[i].id # q[j].id
MapAnchorLists ==
    {<<DocStart>> \o q : q \in {r \in SeqsUpTo(AnchorPool, MaxAnchors) : NoRepeat(r)}}

MapTask == "t1"

MapInit ==
    \E k \in {"preview", "adhoc"}, al \in MapAnchorLists, q \in QueryOutcomes :
        /\ pc = [t \in Tasks |-> IF t = MapTask THEN "mapping" ELSE "idle"]
        /\ kind = [t \in Tasks |-> IF t = MapTask THEN k ELSE "none"]
        /\ arg = [t \in Tasks |->
                     IF t = MapTask /\ k = "preview" THEN [stem |-> "a", ext |-> "md"]
                     ELSE NoFile]
        /\ renderLock = MapTask
        /\ lockQueue = <<>>
        /\ timesLock = IF k = "preview" THEN MapTask ELSE NoTask
        /\ lastRenderTimes = IF k = "preview" THEN {[stem |-> "a", ext |-> "md"]} ELSE {}
        /\ contentMd = PreprocessedContent(MapTask, IF k = "preview" THEN "a" ELSE "adhoc")
        /\ prefsJson = Absent
        /\ tempMd = {}
        /\ pdfs = {IF k = "preview" THEN PreviewPdf ELSE TempPdf(uuid(MapTask))}
        /\ tideflowTyp = TRUE
        /\ preloadTyp = FALSE
        /\ proc = [t \in Tasks |-> NoProc]
        /\ elapsed = [t \in Tasks |-> 0]
        /\ failOut = [t \in Tasks |-> ""]
        /\ exitStatus = [t \in Tasks |-> IF t = MapTask THEN 0 ELSE NoStatus]
        /\ anchors = [t \in Tasks |-> IF t = MapTask THEN al ELSE <<>>]
        /\ query = [t \in Tasks |-> IF t = MapTask THEN q ELSE NoQuery]
        /\ result = [t \in Tasks |-> NoResult]
        /\ fnInput = NoInput
        /\ fnOutput = NoOutput
        /\ Idle

MapNext ==
    \/ RM_SourceMap(MapTask)
    \/ RT_SourceMap(MapTask)

SpecMap == MapInit /\ [][MapNext]_vars

(***************************************************************************)
(* Properties.                                                             *)
(***************************************************************************)
RenderKinds == {"preview", "export", "adhoc"}

\* the call is past its acquisition of RENDER_MUTEX and has not returned
PastLock(t) == kind[t] \in RenderKinds /\ pc[t] \notin {"idle", "wait", "done"}

\* the task has just returned
Returns(t) == pc[t] # "done" /\ pc'[t] = "done"

\* C1: at most one call among render_markdown, export_markdown and
\* render_typst is past its acquisition of the render lock and not returned.
C1_SingleFlight ==
    \A t, u \in Tasks : t # u => ~(PastLock(t) /\ PastLock(u))

\* a render compiles while another render waits for the lock
C1_Witness ==
    \E t, u \in Tasks :
        /\ t # u
        /\ kind[t] \in RenderKinds /\ pc[t] = "compile"
        /\ kind[u] \in RenderKinds /\ pc[u] = "wait"

\* the call has written content.md and its compiles have not all finished
InContentWindow(t) ==
    /\ kind[t] \in RenderKinds
    /\ pc[t] \in {"template", "typst", "spawn", "compile", "rerun", "rerunning"}

\* the call is at a statement that writes or deletes content.md or prefs.json
\* in the build directory, or has a compiler process running there
TouchesBuildDir(t) ==
    \/ kind[t] \in RenderKinds /\ pc[t] \in {"prefs", "content", "compile", "rerunning"}
    \/ kind[t] = "preload"
          /\ pc[t] \in {"pl_content", "pl_prefs", "pl_compile", "pl_cleanup", "pl_cleanup2"}

\* C2: while a render is between its write of content.md and the end of its
\* compile, content.md is the file that render wrote, and every operation that
\* writes content.md or prefs.json or compiles in the build directory holds
\* the render lock.
C2_BuildDirExclusive ==
    /\ \A t \in Tasks : InContentWindow(t) => contentMd.owner = t
    /\ \A t \in Tasks : TouchesBuildDir(t) => renderLock = t

\* C3: whenever a render that acquired the render lock returns, with success
\* or with a failure of any stage, the lock is free again, and a render
\* waiting for a free lock can acquire it.
C3_LockReleasedOnReturn ==
    /\ [][\A t \in Tasks : (Returns(t) /\ renderLock = t) => renderLock' = NoTask]_vars
    /\ [](\A t \in Tasks : pc[t] = "done" => renderLock # t)
    /\ []((renderLock = NoTask /\ lockQueue # <<>>) => ENABLED Acquire(Head(lockQueue)))

\* a render has failed in its compile stage and the render that waited for
\* the lock has acquired it
C3_Witness ==
    \E t, u \in Tasks :
        /\ t # u
        /\ kind[t] \in RenderKinds /\ pc[t] = "done"
        /\ result[t].status = "err" /\ result[t].stage = "compile"
        /\ kind[u] \in RenderKinds /\ pc[u] = "locked" /\ renderLock = u

\* C4: no compiler process of a render is still being waited for after the
\* 30-second timeout has elapsed.
C4_CompileBounded ==
    \A t \in Tasks :
        (kind[t] \in RenderKinds /\ proc[t].state = "running") => elapsed[t] <= CompileTimeout

\* C5: after a preview render has completed, the content.md it left in the
\* build directory carries no preview-only tokens.
C5_CleanContentAfterPreview ==
    \A t \in Tasks :
        (kind[t] = "preview" /\ pc[t] = "done" /\ result[t].status = "ok"
            /\ contentMd.owner = t)
        => ~contentMd.tokens

\* C6: a render returns success only if the compiler exited with status 0
\* and the expected output file exists; a zero exit with the output file
\* missing is a failure.
C6_SuccessNeedsOutput ==
    \A t \in Tasks :
        (kind[t] \in RenderKinds /\ result[t].status = "ok")
        => /\ exitStatus[t] = 0
           /\ result[t].pdf # <<>>
           /\ result[t].pdf[1] \in pdfs

\* one render has succeeded and another has failed because its compiler
\* exited with status 0 without leaving the output file
C6_Witness ==
    \E t, u \in Tasks :
        /\ kind[t] \in RenderKinds /\ result[t].status = "ok"
        /\ kind[u] \in RenderKinds /\ result[u].stage = "missing-output"
        /\ exitStatus[u] = 0

\* what the compiler process whose non-zero exit the call observed printed
ObservedOutput(t) == IF kind[t] = "adhoc" THEN proc[t].run.out ELSE failOut[t]

\* C7: a render that fails because its compiler process exited with a
\* non-zero status returns a message that contains what that process printed.
C7_ErrorCarriesOutput ==
    [][\A t \in Tasks :
          (kind[t] \in RenderKinds /\ Returns(t) /\ result'[t].stage = "compile")
          => result'[t].out = ObservedOutput(t)]_vars

\* the query of the call did not give a parsed result
QueryFailed(q) ==
    \/ ~q.spawned
    \/ ~q.success
    \/ q.stdout = Unparsable

\* every anchor of the list, in order, with no pdf position
AllUnresolved(map, anchorList) ==
    /\ Len(map) = Len(anchorList)
    /\ \A i \in 1..Len(map) : map[i].id = anchorList[i].id /\ map[i].pdf = <<>>

\* C8: once the compile stage has succeeded, render_markdown and render_typst
\* return success with the PDF path whatever the source-map query does; when
\* the query cannot be spawned, exits non-zero or prints unparsable JSON, the
\* source map lists every anchor with no pdf position.
C8_QueryFailureStillSucceeds ==
    [][\A t \in Tasks :
          (pc[t] = "mapping" /\ pc'[t] # "mapping")
          => /\ result'[t].status = "ok"
             /\ result'[t].pdf = <<IF kind[t] = "preview" THEN PreviewPdf
                                   ELSE TempPdf(uuid(t))>>
             /\ QueryFailed(query[t]) => AllUnresolved(result'[t].map, anchors[t])]_vars

\* a render has returned success with a source map in which no anchor has a
\* pdf position
C8_Witness ==
    \E t \in Tasks :
        /\ kind[t] \in {"preview", "adhoc"}
        /\ result[t].status = "ok"
        /\ Len(result[t].map) >= 2
        /\ \A i \in 1..Len(result[t].map) : result[t].map[i].pdf = <<>>

\* the positions the query of the call resolved
Resolved(q) ==
    IF QueryFailed(q) THEN EmptyMap ELSE pdf_positions_from_query(q.stdout)[2]

\* C9: the source map built for a non-empty anchor list has one entry per
\* anchor, in the list's order, with that anchor's id, offset, line and
\* column, and with the pdf position found under its id or none.
C9_OneEntryPerAnchor ==
    [][\A t \in Tasks :
          (pc[t] = "mapping" /\ pc'[t] = "done")
          => LET map == result'[t].map
                 al == anchors[t]
                 found == Resolved(query[t])
             IN /\ Len(map) = Len(al)
                /\ \A i \in 1..Len(al) :
                      /\ map[i].id = al[i].id
                      /\ map[i].editor = [offset |-> al[i].offset, line |-> al[i].line,
                                          column |-> al[i].column]
                      /\ map[i].pdf = IF al[i].id \in DOMAIN found
                                      THEN <<found[al[i].id]>>
                                      ELSE <<>>]_vars

\* a source map of three anchors of which some but not all have a position
C9_Witness ==
    /\ pc[MapTask] = "done"
    /\ Len(result[MapTask].map) = 3
    /\ \E i, j \in 1..3 :
          result[MapTask].map[i].pdf # <<>> /\ result[MapTask].map[j].pdf = <<>>

\* C10: after render_typst has returned, the temp_<uuid>.md file it created
\* no longer exists.
C10_TempInputRemoved ==
    \A t \in Tasks : (kind[t] = "adhoc" /\ pc[t] = "done") => uuid(t) \notin tempMd

(***************************************************************************)
(* Text.  A string is the sequence of its bytes, one-character strings;    *)
(* the zero-width space U+200B is its three UTF-8 bytes.  Offsets are byte *)
(* offsets from 0, as in Rust.                                             *)
(***************************************************************************)
WhiteSpace == {" ", "\t", "\n", "\r"}

StartsWith(s, p) == Len(s) >= Len(p) /\ SubSeq(s, 1, Len(p)) = p
EndsWith(s, p) == Len(s) >= Len(p) /\ SubSeq(s, Len(s) - Len(p) + 1, Len(s)) = p
Take(s, n) == SubSeq(s, 1, n)
Drop(s, n) == SubSeq(s, n + 1, Len(s))

\* str::contains
Contains(s, p) == \E i \in 0..(Len(s) - Len(p)) : StartsWith(Drop(s, i), p)

\* str::find(char): the offset of the first c, or -1 for None
Find(s, c) ==
    IF \E i \in 1..Len(s) : s[i] = c
    THEN (CHOOSE i \in 1..Len(s) : s[i] = c /\ \A j \in 1..(i - 1) : s[j] # c) - 1
    ELSE -1

RECURSIVE TrimStart(_)
TrimStart(s) == IF s # <<>> /\ Head(s) \in WhiteSpace THEN TrimStart(Tail(s)) ELSE s

RECURSIVE TrimEnd(_)
TrimEnd(s) ==
    IF s # <<>> /\ s[Len(s)] \in WhiteSpace THEN TrimEnd(Take(s, Len(s) - 1)) ELSE s

Trim(s) == TrimEnd(TrimStart(s))

RECURSIVE TrimStartMatches(_, _)
TrimStartMatches(s, c) ==
    IF s # <<>> /\ Head(s) = c THEN TrimStartMatches(Tail(s), c) ELSE s

RECURSIVE TrimEndMatches(_, _)
TrimEndMatches(s, c) ==
    IF s # <<>> /\ s[Len(s)] = c THEN TrimEndMatches(Take(s, Len(s) - 1), c) ELSE s

\* str::split_inclusive('\n'): every segment but the last ends with the newline
RECURSIVE split_inclusive(_)
split_inclusive(s) ==
    IF s = <<>> THEN <<>>
    ELSE LET i == Find(s, "\n")
         IN  IF i = -1 THEN <<s>>
             ELSE <<Take(s, i + 1)>> \o split_inclusive(Drop(s, i + 1))

\* str::split('\n'): the newlines are dropped, "" gives one empty piece
RECURSIVE split(_)
split(s) ==
    LET i == Find(s, "\n")
    IN  IF i = -1 THEN <<s>> ELSE <<Take(s, i)>> \o split(Drop(s, i + 1))

\* str::replace(pat, to): every occurrence, left to right
RECURSIVE Replace(_, _, _)
Replace(s, pat, to) ==
    IF ~Contains(s, pat) THEN s
    ELSE LET i == CHOOSE k \in 0..(Len(s) - Len(pat)) :
                      /\ StartsWith(Drop(s, k), pat)
                      /\ \A j \in 0..(k - 1) : ~StartsWith(Drop(s, j), pat)
         IN  Take(s, i) \o to \o Replace(Drop(s, i + Len(pat)), pat, to)

UpperCase == <<"A", "B", "C", "D", "E", "F", "G", "H", "I", "J", "K", "L", "M",
               "N", "O", "P", "Q", "R", "S", "T", "U", "V", "W", "X", "Y", "Z">>
LowerCase == <<"a", "b", "c", "d", "e", "f", "g", "h", "i", "j", "k", "l", "m",
               "n", "o", "p", "q", "r", "s", "t", "u", "v", "w", "x", "y", "z">>

\* str::to_lowercase
to_lowercase(s) ==
    [i \in 1..Len(s) |->
        IF \E k \in 1..Len(UpperCase) : UpperCase[k] = s[i]
        THEN LowerCase[CHOOSE k \in 1..Len(UpperCase) : UpperCase[k] = s[i]]
        ELSE s[i]]

(***************************************************************************)
(* preprocessor.rs: the admonition transform.                              *)
(***************************************************************************)
KindWarning == <<"w", "a", "r", "n", "i", "n", "g">>
KindWarn == <<"w", "a", "r", "n">>
KindDanger == <<"d", "a", "n", "g", "e", "r">>
KindCaution == <<"c", "a", "u", "t", "i", "o", "n">>
KindTip == <<"t", "i", "p">>
KindSuccess == <<"s", "u", "c", "c", "e", "s", "s">>
KindInfo == <<"i", "n", "f", "o">>
KindInformation == <<"i", "n", "f", "o", "r", "m", "a", "t", "i", "o", "n">>
KindImportant == <<"i", "m", "p", "o", "r", "t", "a", "n", "t">>
KindNote == <<"n", "o", "t", "e">>

\* every arm of the match but the first
canonical_admonition_kind_no_synonyms(raw) ==
    LET lower == to_lowercase(raw)
    IN  IF lower = KindWarning THEN KindWarning
        ELSE IF lower \in {KindTip, KindSuccess} THEN KindTip
        ELSE IF lower \in {KindInfo, KindInformation} THEN KindInfo
        ELSE IF lower = KindImportant THEN KindImportant
        ELSE KindNote

canonical_admonition_kind(raw) ==
    LET lower == to_lowercase(raw)
    IN  IF lower \in {KindWarning, KindWarn, KindDanger, KindCaution} THEN KindWarning
        ELSE IF lower \in {KindTip, KindSuccess} THEN KindTip
        ELSE IF lower \in {KindInfo, KindInformation} THEN KindInfo
        ELSE IF lower = KindImportant THEN KindImportant
        ELSE KindNote

AdmonitionOpen ==
    <<"<", "!", "-", "-", "r", "a", "w", "-", "t", "y", "p", "s", "t", " ",
      "#", "a", "d", "m", "o", "n", "i", "t", "i", "o", "n", "(", "\"">>
AdmonitionOpenEnd ==
    <<"\"", ")", "[", " ", "-", "-", ">", "\n">>

\* a segment without its newline, and whether it had one
LineOf(segment) ==
    IF EndsWith(segment, <<"\n">>) THEN Take(segment, Len(segment) - 1) ELSE segment
HadNewline(segment) == EndsWith(segment, <<"\n">>)

\* the inner loop: the quoted lines that follow the opening line
RECURSIVE admonition_body(_, _, _)
admonition_body(segments, idx, body) ==
    IF idx > Len(segments) THEN [idx |-> idx, body |-> body]
    ELSE LET seg == segments[idx]
             trimmed_line == TrimStart(LineOf(seg))
         IN  IF ~StartsWith(trimmed_line, <<">">>) THEN [idx |-> idx, body |-> body]
             ELSE LET content == TrimStartMatches(Tail(trimmed_line), " ")
                  IN  admonition_body(segments, idx + 1,
                          IF content = <<>> THEN body \o <<"\n">>
                          ELSE body \o content
                                    \o (IF HadNewline(seg) THEN <<"\n">> ELSE <<>>))

\* the outer loop over the segments (idx counts from 1); acc.out is `output`
\* and acc.blocks lists the admonition blocks in the order they are emitted
RECURSIVE transform_admonitions_loop(_, _, _)
transform_admonitions_loop(segments, idx, acc) ==
    IF idx > Len(segments) THEN acc
    ELSE LET segment == segments[idx]
             line_content == LineOf(segment)
             had_newline == HadNewline(segment)
             trimmed == TrimStart(line_content)
             indent == Take(line_content, Len(line_content) - Len(trimmed))
             after_gt == TrimStart(Tail(trimmed))
             after_marker == Drop(after_gt, 2)
             closing_idx == Find(after_marker, "]")
             raw_kind == Trim(Take(after_marker, closing_idx))
             remainder == TrimStart(Drop(after_marker, closing_idx + 1))
             kind_ == canonical_admonition_kind(raw_kind)
             first == IF remainder # <<>>
                      THEN remainder \o (IF had_newline THEN <<"\n">> ELSE <<>>)
                      ELSE IF had_newline THEN <<"\n">> ELSE <<>>
             rest == admonition_body(segments, idx + 1, first)
             rendered == indent \o AdmonitionOpen \o kind_ \o AdmonitionOpenEnd
                         \o TrimEndMatches(rest.body, "\n") \o <<"\n">>
         IN  IF \/ ~StartsWith(trimmed, <<">">>)
                \/ ~StartsWith(after_gt, <<"[", "!">>)
                \/ closing_idx = -1
                \/ raw_kind = <<>>
             THEN transform_admonitions_loop(segments, idx + 1,
                      [acc EXCEPT !.out = @ \o segment])
             ELSE transform_admonitions_loop(segments, rest.idx,
                      [out |-> acc.out \o rendered,
                       blocks |-> Append(acc.blocks,
                           [opening |-> idx, next |-> rest.idx, indent |-> indent,
                            kind |-> kind_, body |-> TrimEndMatches(rest.body, "\n"),
                            rendered |-> rendered, at |-> Len(acc.out)])])

transform_admonitions_run(markdown) ==
    transform_admonitions_loop(split_inclusive(markdown), 1, [out |-> <<>>, blocks |-> <<>>])

transform_admonitions(markdown) == transform_admonitions_run(markdown).out

(***************************************************************************)
(* preprocessor.rs: legacy callouts and the blockquote spacing fix.        *)
(***************************************************************************)
LegacyNote ==
    <<"<", "!", "-", "-", "r", "a", "w", "-", "t", "y", "p", "s", "t", " ",
      "#", "b", "l", "o", "c", "k", "(", "f", "i", "l", "l", ":", " ", "l",
      "u", "m", "a", "(", "2", "4", "5", ")", ",", " ", "i", "n", "s", "e",
      "t", ":", " ", "8", "p", "t", ",", " ", "r", "a", "d", "i", "u", "s",
      ":", " ", "6", "p", "t", ",", " ", "s", "t", "r", "o", "k", "e", ":",
      " ", "0", ".", "5", "p", "t", " ", "+", " ", "l", "u", "m", "a", "(",
      "2", "0", "0", ")", ")">>
LegacyInfo ==
    <<"<", "!", "-", "-", "r", "a", "w", "-", "t", "y", "p", "s", "t", " ",
      "#", "b", "l", "o", "c", "k", "(", "f", "i", "l", "l", ":", " ", "r",
      "g", "b", "(", "2", "2", "4", ",", "2", "4", "2", ",", "2", "5", "4",
      ")", ",", " ", "i", "n", "s", "e", "t", ":", " ", "8", "p", "t", ",",
      " ", "r", "a", "d", "i", "u", "s", ":", " ", "6", "p", "t", ",", " ",
      "s", "t", "r", "o", "k", "e", ":", " ", "0", ".", "5", "p", "t", " ",
      "+", " ", "r", "g", "b", "(", "1", "8", "6", ",", "2", "3", "0", ",",
      "2", "5", "3", ")", ")">>
LegacyTip ==
    <<"<", "!", "-", "-", "r", "a", "w", "-", "t", "y", "p", "s", "t", " ",
      "#", "b", "l", "o", "c", "k", "(", "f", "i", "l", "l", ":", " ", "r",
      "g", "b", "(", "2", "2", "0", ",", "2", "5", "2", ",", "2", "3", "1",
      ")", ",", " ", "i", "n", "s", "e", "t", ":", " ", "8", "p", "t", ",",
      " ", "r", "a", "d", "i", "u", "s", ":", " ", "6", "p", "t", ",", " ",
      "s", "t", "r", "o", "k", "e", ":", " ", "0", ".", "5", "p", "t", " ",
      "+", " ", "r", "g", "b", "(", "1", "8", "7", ",", "2", "4", "7", ",",
      "2", "0", "8", ")", ")">>
LegacyWarning ==
    <<"<", "!", "-", "-", "r", "a", "w", "-", "t", "y", "p", "s", "t", " ",
      "#", "b", "l", "o", "c", "k", "(", "f", "i", "l", "l", ":", " ", "r",
      "g", "b", "(", "2", "5", "4", ",", "2", "4", "9", ",", "1", "9", "5",
      ")", ",", " ", "i", "n", "s", "e", "t", ":", " ", "8", "p", "t", ",",
      " ", "r", "a", "d", "i", "u", "s", ":", " ", "6", "p", "t", ",", " ",
      "s", "t", "r", "o", "k", "e", ":", " ", "0", ".", "5", "p", "t", " ",
      "+", " ", "r", "g", "b", "(", "2", "5", "3", ",", "2", "2", "4", ",",
      "7", "1", ")", ")">>

\* <!--raw-typst #admonition("kind")
AdmonitionCall(k) == AdmonitionOpen \o k \o <<"\"", ")">>

normalise_legacy_callouts(markdown) ==
    Replace(Replace(Replace(Replace(markdown,
        LegacyNote, AdmonitionCall(KindNote)),
        LegacyInfo, AdmonitionCall(KindInfo)),
        LegacyTip, AdmonitionCall(KindTip)),
        LegacyWarning, AdmonitionCall(KindWarning))

\* U+200B in UTF-8, and the bytes that continue a character
ZeroWidthSpace == <<"E2", "80", "8B">>
ContinuationBytes == {"80", "8B"}

IsQuoteLine(line) == StartsWith(TrimStart(line), <<">">>)

\* the loop over the lines (i counts from 1)
RECURSIVE fix_cmarker_quirks_loop(_, _, _)
fix_cmarker_quirks_loop(lines, i, out) ==
    IF i > Len(lines) THEN out
    ELSE LET line == lines[i]
             notLast == i < Len(lines)
             next_is_blockquote == IsQuoteLine(lines[i + 1])
             current_is_blockquote == IsQuoteLine(line)
             prev_is_blockquote == i > 1 /\ IsQuoteLine(lines[i - 1])
             separator == <<"\n">> \o ZeroWidthSpace
             before == IF notLast /\ next_is_blockquote /\ ~current_is_blockquote
                       THEN separator ELSE <<>>
             after == IF ~notLast THEN <<>>
                      ELSE IF current_is_blockquote /\ ~next_is_blockquote THEN separator
                      ELSE IF prev_is_blockquote /\ ~current_is_blockquote
                              /\ ~next_is_blockquote THEN separator
                      ELSE <<>>
             newline == IF notLast THEN <<"\n">> ELSE <<>>
         IN  fix_cmarker_quirks_loop(lines, i + 1,
                 out \o line \o before \o after \o newline)

fix_cmarker_quirks(markdown) == fix_cmarker_quirks_loop(split(markdown), 1, <<>>)

(***************************************************************************)
(* The block structure pulldown_cmark's Parser::into_offset_iter reports,  *)
(* for documents whose lines are blank, plain text, a blockquote line      *)
(* (`>` and text, not nested) or an HTML comment, each indented by fewer   *)
(* than four spaces: the Start events of the block-level tags with the     *)
(* byte offset where each block starts, in the order of the events.        *)
(***************************************************************************)
LeadingSpaces(s) == Len(s) - Len(TrimStartMatches(s, " "))

ParserStart == [para |-> FALSE, quote |-> FALSE, html |-> FALSE]

RECURSIVE parser_blocks(_, _, _, _)
parser_blocks(segments, idx, offset, st) ==
    IF idx > Len(segments) THEN <<>>
    ELSE LET c == LineOf(segments[idx])
             n == LeadingSpaces(c)
             r == Drop(c, n)
             afterGt == Tail(r)
             sp == IF StartsWith(afterGt, <<" ">>) THEN 1 ELSE 0
             k == LeadingSpaces(Drop(afterGt, sp))
             x == Drop(afterGt, sp + k)
             quoteStart == IF st.quote THEN <<>>
                           ELSE <<[tag |-> "BlockQuote", start |-> offset]>>
             go(events, st2) ==
                 events \o parser_blocks(segments, idx + 1, offset + Len(segments[idx]), st2)
         IN  IF st.html
             THEN go(<<>>, [st EXCEPT !.html = ~Contains(c, <<"-", "-", ">">>)])
             ELSE IF r = <<>>
             THEN go(<<>>, ParserStart)
             ELSE IF StartsWith(r, <<">">>)
             THEN IF x = <<>>
                  THEN go(quoteStart, [para |-> FALSE, quote |-> TRUE, html |-> FALSE])
                  ELSE IF st.quote /\ st.para
                  THEN go(<<>>, st)
                  ELSE go(quoteStart
                          \o <<[tag |-> "Paragraph", start |-> offset + n + 1 + sp + k]>>,
                          [para |-> TRUE, quote |-> TRUE, html |-> FALSE])
             ELSE IF StartsWith(r, <<"<", "!", "-", "-">>)
             THEN go(<<>>, [para |-> FALSE, quote |-> FALSE,
                            html |-> ~Contains(r, <<"-", "-", ">">>)])
             ELSE IF st.para
             THEN go(<<>>, st)
             ELSE go(<<[tag |-> "Paragraph", start |-> offset + n]>>,
                     [para |-> TRUE, quote |-> FALSE, html |-> FALSE])

Parser(markdown) == parser_blocks(split_inclusive(markdown), 1, 0, ParserStart)

(***************************************************************************)
(* preprocessor.rs: anchor injection.                                      *)
(***************************************************************************)
BlockLevelTags ==
    {"Paragraph", "Heading", "BlockQuote", "CodeBlock", "List", "Item",
     "FootnoteDefinition", "Table", "TableHead", "TableRow", "TableCell"}

is_block_level(tag) == tag \in BlockLevelTags

Digits == <<"0", "1", "2", "3", "4", "5", "6", "7", "8", "9">>

\* format!("{}", n) of an unsigned number
RECURSIVE Decimal(_)
Decimal(n) ==
    IF n < 10 THEN <<Digits[n + 1]>>
    ELSE Decimal(n \div 10) \o <<Digits[(n % 10) + 1]>>

DocId == <<"t", "f", "-", "d", "o", "c", "-", "s", "t", "a", "r", "t">>

\* format!("tf-{}-{}", range.start, anchors.len())
AnchorId(start, count) == <<"t", "f", "-">> \o Decimal(start) \o <<"-">> \o Decimal(count)

LabelOpen ==
    <<"<", "!", "-", "-", "r", "a", "w", "-", "t", "y", "p", "s", "t", " ",
      "#", "l", "a", "b", "e", "l", "(", "\"">>
LabelClose ==
    <<"\"", ")", " ", "-", "-", ">", "\n">>

\* the line is the number of newlines before the offset, the column the
\* number of characters after the last of them
offset_to_line_column(source, offset) ==
    LET newlines == {i \in 1..offset : source[i] = "\n"}
        lineStart == IF newlines = {} THEN 0
                     ELSE CHOOSE i \in newlines : \A j \in newlines : j <= i
    IN  [line |-> Cardinality(newlines),
         column |-> Cardinality({i \in (lineStart + 1)..offset :
                                   source[i] \notin ContinuationBytes})]

\* a markup that never begins with a newline
build_anchor_markup_bare(source, offset, id) ==
    LabelOpen \o id \o LabelClose

build_anchor_markup(source, offset, id) ==
    (IF offset > 0 /\ ~EndsWith(Take(source, offset), <<"\n">>) THEN <<"\n">> ELSE <<>>)
    \o LabelOpen \o id \o LabelClose

DocStartAnchor == [id |-> DocId, offset |-> 0, line |-> 0, column |-> 0]

\* an injection that does not start with the document-start anchor
inject_anchors_init_no_doc(markdown) ==
    [insertions |-> <<>>, anchorList |-> <<>>, seen_offsets |-> {}]

\* insertions, anchors and seen_offsets before the parser's events are read
inject_anchors_init(markdown) ==
    [insertions |-> <<[offset |-> 0, text |-> build_anchor_markup(markdown, 0, DocId)]>>,
     anchorList |-> <<DocStartAnchor>>,
     seen_offsets |-> {0}]

\* a loop that anchors every block-level start, seen before or not
RECURSIVE inject_anchors_loop_no_dedup(_, _, _)
inject_anchors_loop_no_dedup(markdown, events, acc) ==
    IF events = <<>> THEN acc
    ELSE LET e == Head(events)
             id == AnchorId(e.start, Len(acc.anchorList))
             lc == offset_to_line_column(markdown, e.start)
         IN  IF ~is_block_level(e.tag)
             THEN inject_anchors_loop_no_dedup(markdown, Tail(events), acc)
             ELSE inject_anchors_loop_no_dedup(markdown, Tail(events),
                     [insertions |-> Append(acc.insertions,
                          [offset |-> e.start,
                           text |-> build_anchor_markup(markdown, e.start, id)]),
                      anchorList |-> Append(acc.anchorList,
                          [id |-> id, offset |-> e.start,
                           line |-> lc.line, column |-> lc.column]),
                      seen_offsets |-> acc.seen_offsets \cup {e.start}])

\* the loop over the parser's events
RECURSIVE inject_anchors_loop(_, _, _)
inject_anchors_loop(markdown, events, acc) ==
    IF events = <<>> THEN acc
    ELSE LET e == Head(events)
             id == AnchorId(e.start, Len(acc.anchorList))
             lc == offset_to_line_column(markdown, e.start)
         IN  IF ~is_block_level(e.tag) \/ e.start \in acc.seen_offsets
             THEN inject_anchors_loop(markdown, Tail(events), acc)
             ELSE inject_anchors_loop(markdown, Tail(events),
                     [insertions |-> Append(acc.insertions,
                          [offset |-> e.start,
                           text |-> build_anchor_markup(markdown, e.start, id)]),
                      anchorList |-> Append(acc.anchorList,
                          [id |-> id, offset |-> e.start,
                           line |-> lc.line, column |-> lc.column]),
                      seen_offsets |-> acc.seen_offsets \cup {e.start}])

\* insertions left in the order they were collected in
sort_by_offset_unsorted(insertions) == insertions

\* insertions.sort_by_key(|(offset, _)| *offset): a stable sort
RECURSIVE sort_by_offset(_)
sort_by_offset(insertions) ==
    IF insertions = <<>> THEN <<>>
    ELSE LET sorted == sort_by_offset(Take(insertions, Len(insertions) - 1))
             x == insertions[Len(insertions)]
             at == Cardinality({i \in 1..Len(sorted) : sorted[i].offset <= x.offset})
         IN  Take(sorted, at) \o <<x>> \o Drop(sorted, at)

\* String::insert_str
insert_str(s, offset, text) == Take(s, offset) \o text \o Drop(s, offset)

\* for (offset, snippet) in insertions.into_iter().rev()
RECURSIVE apply_insertions(_, _)
apply_insertions(text, insertions) ==
    IF insertions = <<>> THEN text
    ELSE LET x == insertions[Len(insertions)]
         IN  apply_insertions(insert_str(text, x.offset, x.text),
                              Take(insertions, Len(insertions) - 1))

inject_anchors(markdown) ==
    LET acc == inject_anchors_loop(markdown, Parser(markdown), inject_anchors_init(markdown))
    IN  [markdown |-> apply_insertions(markdown, sort_by_offset(acc.insertions)),
         anchors |-> acc.anchorList]

\* the text that preprocess_markdown hands to inject_anchors
cmarker_fixed(markdown) ==
    fix_cmarker_quirks(normalise_legacy_callouts(transform_admonitions(markdown)))

preprocess_markdown(markdown) == inject_anchors(cmarker_fixed(markdown))

(***************************************************************************)
(* preprocess_markdown called on its own, on every document of up to       *)
(* MaxLines lines.                                                         *)
(***************************************************************************)
MaxLines == 3

\* lines joined by newlines
RECURSIVE Join(_)
Join(lines) ==
    IF lines = <<>> THEN <<>>
    ELSE IF Len(lines) = 1 THEN lines[1]
    ELSE Head(lines) \o <<"\n">> \o Join(Tail(lines))

\* the documents made of up to n of the lines, with or without a final newline
Documents(lines, n) ==
    LET joined == {Join(ls) : ls \in SeqsUpTo(lines, n)}
    IN  joined \cup {d \o <<"\n">> : d \in joined}

\* blank, text, quoted text, an empty quoted line, an admonition opening
PreLines ==
    {<<>>, <<"a">>, <<">", " ", "b">>, <<">">>,
     <<">", " ", "[", "!", "t", "i", "p", "]", " ", "c">>}

PreInit ==
    /\ NoCalls
    /\ fnInput \in {[fn |-> "preprocess_markdown", markdown |-> d] :
                      d \in Documents(PreLines, MaxLines)}
    /\ fnOutput = NoOutput

PreprocessMarkdown ==
    /\ fnInput.fn = "preprocess_markdown"
    /\ fnOutput = NoOutput
    /\ fnOutput' = [fn |-> "preprocess_markdown",
                    value |-> preprocess_markdown(fnInput.markdown)]
    /\ UNCHANGED <<orchestration, fnInput, components>>

PreNext == PreprocessMarkdown

SpecPre == PreInit /\ [][PreNext]_vars

Preprocessed == fnOutput.fn = "preprocess_markdown"

\* the starts of the block-level elements of a text
BlockStarts(text) ==
    LET events == Parser(text)
    IN  {events[i].start : i \in {j \in 1..Len(events) : is_block_level(events[j].tag)}}

\* the line of the text that holds the byte at the offset
RECURSIVE LineAt(_, _)
LineAt(text, offset) ==
    LET i == Find(text, "\n")
    IN  IF i = -1 \/ offset <= i THEN LineOf(IF i = -1 THEN text ELSE Take(text, i))
        ELSE LineAt(Drop(text, i + 1), offset - (i + 1))

\* C11: every anchor's offset is a position within the caller's original
\* text at which a block-level element of that text starts (offset 0 for the
\* document-start anchor), and its line and column are those of that
\* position in the original text.
C11_AnchorsPointIntoOriginal ==
    Preprocessed =>
        LET m == fnInput.markdown
            al == fnOutput.value.anchors
        IN  \A i \in 1..Len(al) :
                /\ al[i].offset <= Len(m)
                /\ al[i].offset \in BlockStarts(m) \cup (IF i = 1 THEN {0} ELSE {})
                /\ offset_to_line_column(m, al[i].offset)
                     = [line |-> al[i].line, column |-> al[i].column]

\* C12: no anchor but the document-start anchor stands for a block whose
\* line begins with '>' (a BlockQuote start or content nested in a
\* blockquote or admonition).
C12_NoAnchorInBlockquote ==
    Preprocessed =>
        LET text == cmarker_fixed(fnInput.markdown)
            al == fnOutput.value.anchors
        IN  \A i \in 2..Len(al) : ~IsQuoteLine(LineAt(text, al[i].offset))

\* C13: the anchor list has exactly one anchor with id tf-doc-start; it is
\* the first entry and has offset 0, line 0, column 0.
C13_OneDocStartAnchor ==
    Preprocessed =>
        LET al == fnOutput.value.anchors
        IN  /\ Len(al) >= 1
            /\ al[1] = DocStartAnchor
            /\ \A i \in 2..Len(al) : al[i].id # DocId

\* a document whose first block starts at offset 0 and which has a later block
C13_Witness ==
    /\ Preprocessed
    /\ 0 \in BlockStarts(cmarker_fixed(fnInput.markdown))
    /\ Len(fnOutput.value.anchors) >= 2

\* C14: any two distinct anchors of one call have different offsets and
\* different ids.
C14_AnchorsDistinct ==
    Preprocessed =>
        LET al == fnOutput.value.anchors
        IN  \A i, j \in 1..Len(al) :
                i # j => al[i].offset # al[j].offset /\ al[i].id # al[j].id

\* a block started at an offset that already had an anchor and got none
C14_Witness ==
    /\ Preprocessed
    /\ Len(Parser(cmarker_fixed(fnInput.markdown))) >= Len(fnOutput.value.anchors)
    /\ Len(fnOutput.value.anchors) >= 3

(***************************************************************************)
(* transform_admonitions called on its own, on every document of up to     *)
(* MaxLines lines.                                                         *)
(***************************************************************************)
\* text, an admonition opening, an indented opening without text after the
\* marker, a quoted line with two spaces, a blank quoted line, a quoted line
AdmLines ==
    {<<"a">>,
     <<">", " ", "[", "!", "t", "i", "p", "]", " ", "b">>,
     <<" ", ">", " ", "[", "!", "W", "A", "R", "N", "]">>,
     <<">", " ", " ", "c">>,
     <<">">>,
     <<">", " ", "d">>}

AdmInit ==
    /\ NoCalls
    /\ fnInput \in {[fn |-> "transform_admonitions", markdown |-> d] :
                      d \in Documents(AdmLines, MaxLines)}
    /\ fnOutput = NoOutput

TransformAdmonitions ==
    /\ fnInput.fn = "transform_admonitions"
    /\ fnOutput = NoOutput
    /\ fnOutput' = [fn |-> "transform_admonitions",
                    value |-> transform_admonitions(fnInput.markdown),
                    blocks |-> transform_admonitions_run(fnInput.markdown).blocks]
    /\ UNCHANGED <<orchestration, fnInput, components>>

AdmNext == TransformAdmonitions

SpecAdm == AdmInit /\ [][AdmNext]_vars

Transformed == fnOutput.fn = "transform_admonitions"

\* the opening directive line of an emitted block
BlockOpening(b) == b.indent \o AdmonitionOpen \o b.kind \o AdmonitionOpenEnd

\* a quoted line without its '>' and one following space
StripQuoteMarker(line) ==
    LET quoted == Tail(TrimStart(line))
    IN  IF StartsWith(quoted, <<" ">>) THEN Tail(quoted) ELSE quoted

\* the text after the [!kind] marker of an opening line
AfterMarker(line) == TrimStart(Drop(line, Find(line, "]") + 1))

\* the first segment from idx on that does not start with '>'
RECURSIVE BlockEnd(_, _)
BlockEnd(segments, idx) ==
    IF idx > Len(segments) \/ ~IsQuoteLine(LineOf(segments[idx])) THEN idx
    ELSE BlockEnd(segments, idx + 1)

\* C15: the body of an admonition block is the text after the marker on the
\* opening line followed by every immediately following quoted line without
\* its '>' and one following space, in order, a blank quoted line giving a
\* blank body line; the block ends at the first line that does not start
\* with '>', which is passed through unchanged.
C15_BodyIsTheQuotedLines ==
    Transformed =>
        LET segments == split_inclusive(fnInput.markdown)
        IN  \A i \in 1..Len(fnOutput.blocks) :
                LET b == fnOutput.blocks[i]
                    last == BlockEnd(segments, b.opening + 1)
                    claimed == <<AfterMarker(LineOf(segments[b.opening]))>>
                               \o [j \in 1..(last - b.opening - 1) |->
                                      StripQuoteMarker(LineOf(segments[b.opening + j]))]
                    after == b.at + Len(b.rendered)
                IN  /\ b.next = last
                    /\ split(b.body) = claimed
                    /\ last <= Len(segments) =>
                         SubSeq(fnOutput.value, after + 1, after + Len(segments[last]))
                           = segments[last]

\* C16: every emitted admonition block starts with the opening directive,
\* indented as the opening marker was, and a closing delimiter follows its
\* body.
C16_BlockIsClosed ==
    Transformed =>
        \A i \in 1..Len(fnOutput.blocks) :
            LET b == fnOutput.blocks[i]
                closing == Drop(b.rendered, Len(BlockOpening(b) \o b.body \o <<"\n">>))
            IN  /\ StartsWith(b.rendered, BlockOpening(b) \o b.body \o <<"\n">>)
                /\ Contains(closing, <<"]">>)

(***************************************************************************)
(* canonical_admonition_kind called on its own, on the keywords of the     *)
(* match and on others, in every mix of upper and lower case.              *)
(***************************************************************************)
Upper(c) ==
    IF \E k \in 1..Len(LowerCase) : LowerCase[k] = c
    THEN UpperCase[CHOOSE k \in 1..Len(LowerCase) : LowerCase[k] = c]
    ELSE c

CaseVariants(word) ==
    {[i \in 1..Len(word) |-> IF i \in U THEN Upper(word[i]) ELSE word[i]] :
        U \in SUBSET (1..Len(word))}

MatchedKinds ==
    {KindWarning, KindWarn, KindDanger, KindCaution, KindTip, KindSuccess,
     KindInfo, KindInformation, KindImportant}

OtherKinds ==
    {KindNote, <<"f", "o", "o">>, <<"w", "a", "r", "n", "s">>, <<"t", "i">>, <<"!", "1">>}

KindInit ==
    /\ NoCalls
    /\ fnInput \in {[fn |-> "canonical_admonition_kind", raw |-> v] :
                      v \in UNION {CaseVariants(w) : w \in MatchedKinds \cup OtherKinds}}
    /\ fnOutput = NoOutput

CanonicalAdmonitionKind ==
    /\ fnInput.fn = "canonical_admonition_kind"
    /\ fnOutput = NoOutput
    /\ fnOutput' = [fn |-> "canonical_admonition_kind",
                    value |-> canonical_admonition_kind(fnInput.raw)]
    /\ UNCHANGED <<orchestration, fnInput, components>>

KindNext == CanonicalAdmonitionKind

SpecKind == KindInit /\ [][KindNext]_vars

ClosedKinds == {KindNote, KindTip, KindInfo, KindWarning, KindImportant}

\* C17: the result is one of note, tip, info, warning, important; warning,
\* warn, danger and caution in any case give warning, a name of the closed
\* set gives itself, and a keyword the match does not list gives note.
C17_KindIsCanonical ==
    fnOutput.fn = "canonical_admonition_kind" =>
        LET lower == to_lowercase(fnInput.raw)
        IN  /\ fnOutput.value \in ClosedKinds
            /\ lower \in {KindWarning, KindWarn, KindDanger, KindCaution}
                 => fnOutput.value = KindWarning
            /\ lower \in ClosedKinds => fnOutput.value = lower
            /\ lower \in OtherKinds => fnOutput.value = KindNote

\* a synonym of warning written in mixed case
C17_Witness ==
    /\ fnOutput.fn = "canonical_admonition_kind"
    /\ fnInput.raw = <<"D", "a", "N", "g", "e", "r">>
    /\ fnOutput.value = KindWarning

(***************************************************************************)
(* utils/typst.rs: image path rewriting.  A path is text; the filesystem   *)
(* is the set of the files that exist (their directories exist with them)  *)
(* and whether the assets directory can be written.                        *)
(***************************************************************************)
\* str::split(c)
RECURSIVE SplitOn(_, _)
SplitOn(s, c) ==
    LET i == Find(s, c)
    IN  IF i = -1 THEN <<s>> ELSE <<Take(s, i)>> \o SplitOn(Drop(s, i + 1), c)

\* str::replace(char, char)
ReplaceChar(s, from, to) == [i \in 1..Len(s) |-> IF s[i] = from THEN to ELSE s[i]]

RECURSIVE JoinWith(_, _)
JoinWith(parts, c) ==
    IF parts = <<>> THEN <<>>
    ELSE IF Len(parts) = 1 THEN parts[1]
    ELSE Head(parts) \o <<c>> \o JoinWith(Tail(parts), c)

\* the components of a path: empty ones and "." are dropped
Components(p) ==
    LET parts == SplitOn(p, "/")
        keep == {i \in 1..Len(parts) : parts[i] # <<>> /\ parts[i] # <<".">>}
        nth(k) == CHOOSE i \in keep : Cardinality({j \in keep : j < i}) = k - 1
    IN  [k \in 1..Cardinality(keep) |-> parts[nth(k)]]

\* Path::is_absolute on a POSIX system
is_absolute(p) == StartsWith(p, <<"/">>)

\* Path::join
path_join(base, rel) ==
    IF is_absolute(rel) THEN rel
    ELSE IF EndsWith(base, <<"/">>) THEN base \o rel
    ELSE base \o <<"/">> \o rel

\* Path::parent: <<>> for None, <<p>> for Some(p)
path_parent(p) ==
    LET comps == Components(p)
    IN  IF comps = <<>> THEN <<>>
        ELSE <<(IF is_absolute(p) THEN <<"/">> ELSE <<>>)
               \o JoinWith(Take(comps, Len(comps) - 1), "/")>>

\* Path::file_name: <<>> for None
file_name(p) ==
    LET comps == Components(p)
    IN  IF comps = <<>> \/ comps[Len(comps)] = <<".", ".">> THEN <<>>
        ELSE <<comps[Len(comps)]>>

\* the directories of the filesystem
Directories(fs) ==
    {<<"/">>} \cup
    UNION {{<<"/">> \o JoinWith(Take(Components(f), n), "/") :
               n \in 1..(Len(Components(f)) - 1)} : f \in fs.files}

\* ".." steps resolved against the components before them
RECURSIVE ResolveDots(_, _)
ResolveDots(comps, done) ==
    IF comps = <<>> THEN done
    ELSE IF Head(comps) = <<".", ".">>
    THEN ResolveDots(Tail(comps), IF done = <<>> THEN <<>> ELSE Take(done, Len(done) - 1))
    ELSE ResolveDots(Tail(comps), Append(done, Head(comps)))

\* Path::canonicalize: <<>> when the path does not exist (there are no links)
canonicalize(fs, p) ==
    LET resolved == <<"/">> \o JoinWith(ResolveDots(Components(p), <<>>), "/")
    IN  IF is_absolute(p) /\ resolved \in fs.files \cup Directories(fs)
        THEN <<resolved>> ELSE <<>>

SafeChars ==
    {LowerCase[i] : i \in 1..Len(LowerCase)} \cup {UpperCase[i] : i \in 1..Len(UpperCase)}
    \cup {Digits[i] : i \in 1..Len(Digits)} \cup {"-", "_", "."}

\* the element of a one-element set: Only({e : x \in {v}}) is e with the
\* value of v, computed once, in the place of x
Only(S) == CHOOSE v \in S : TRUE

\* every run of other characters becomes one "-"
sanitize_runs(s) ==
    LET firsts == SelectSeq([i \in 1..Len(s) |-> i],
                            LAMBDA i : s[i] \in SafeChars \/ i = 1 \/ s[i - 1] \in SafeChars)
    IN  [k \in 1..Len(firsts) |->
            IF s[firsts[k]] \in SafeChars THEN s[firsts[k]] ELSE "-"]

DefaultFileName == <<"f", "i", "l", "e", ".", "t", "x", "t">>

sanitize_filename(filename) ==
    Only({IF sanitized = <<>> THEN DefaultFileName ELSE sanitized :
             sanitized \in {sanitize_runs(filename)}})

\* the offset of the last dot that splits a file name into stem and extension
LastDot(name) ==
    LET dots == {i \in 2..Len(name) : name[i] = "."}
    IN  IF dots = {} \/ name = <<".", ".">> THEN 0
        ELSE CHOOSE i \in dots : \A j \in dots : j <= i

\* Path::file_stem and Path::extension
file_stem(name) == IF LastDot(name) = 0 THEN name ELSE Take(name, LastDot(name) - 1)
extension(name) == IF LastDot(name) = 0 THEN <<>> ELSE Drop(name, LastDot(name))

MaxStemLen == 100

\* stands for the first eight hex digits of DefaultHasher over the path: the
\* same path gives the same digits
hash_short(abs) == <<"h">> \o Decimal(Len(abs))

SchemeHttp == <<"h", "t", "t", "p", ":", "/", "/">>
SchemeHttps == <<"h", "t", "t", "p", "s", ":", "/", "/">>
SchemeData == <<"d", "a", "t", "a", ":">>
SchemeFile == <<"f", "i", "l", "e", ":">>
AssetsPrefix == <<"a", "s", "s", "e", "t", "s", "/">>
AssetsName == <<"a", "s", "s", "e", "t", "s">>
RootAssetsPrefix == <<"/", "a", "s", "s", "e", "t", "s", "/">>
VerbatimPrefix == <<"/", "/", "?", "/">>

is_external(p) ==
    LET lower == to_lowercase(p)
    IN  \/ StartsWith(lower, SchemeHttp)
        \/ StartsWith(lower, SchemeHttps)
        \/ StartsWith(lower, SchemeData)
        \/ StartsWith(lower, SchemeFile)

\* String::pop when the text ends with '/'
TrimEndOne(s) == IF EndsWith(s, <<"/">>) THEN Take(s, Len(s) - 1) ELSE s

\* str::trim_start_matches(pattern)
RECURSIVE TrimPrefix(_, _)
TrimPrefix(s, pat) == IF StartsWith(s, pat) THEN TrimPrefix(Drop(s, Len(pat)), pat) ELSE s

NeedsWrap(p) == \E i \in 1..Len(p) : p[i] \in {" ", "(", ")"}

\* the file name under which a file outside the content root is copied
AssetFileName(fs, abs, assets_dir) ==
    Only({
        LET stem == IF sanitized = <<".", ".">> THEN <<"f", "i", "l", "e">>
                    ELSE file_stem(sanitized)
            ext == extension(sanitized)
            truncated_stem == IF Len(stem) > MaxStemLen THEN Take(stem, MaxStemLen) ELSE stem
            plain == IF ext = <<>> THEN truncated_stem ELSE truncated_stem \o <<".">> \o ext
            hashed == IF ext = <<>> THEN truncated_stem \o <<"-">> \o hash_short(abs)
                      ELSE truncated_stem \o <<"-">> \o hash_short(abs) \o <<".">> \o ext
        IN  IF path_join(assets_dir, plain) \in fs.files THEN hashed ELSE plain :
        sanitized \in {sanitize_filename(file_name(abs)[1])}})

\* the angle brackets of a Markdown path taken off
unwrap_angle(raw) ==
    Only({
        LET had_angle == StartsWith(trimmed, <<"<">>) /\ EndsWith(trimmed, <<">">>)
        IN  [unwrapped |-> IF had_angle THEN SubSeq(trimmed, 2, Len(trimmed) - 1)
                           ELSE trimmed,
             had_angle |-> had_angle] :
        trimmed \in {Trim(raw)}})

\* the path joined against the base, canonicalized, with forward slashes
resolve_path(fs, base, unwrapped) ==
    Only({Only({Only({
        [normalized_unwrapped |-> normalized_unwrapped,
         joined |-> joined,
         abs |-> abs,
         path_str |-> TrimPrefix(ReplaceChar(abs, "\\", "/"), VerbatimPrefix)] :
        abs \in {IF canonical # <<>> THEN canonical[1] ELSE joined}}) :
        canonical \in {canonicalize(fs, joined)}}) :
        normalized_unwrapped \in {ReplaceChar(unwrapped, "\\", "/")},
        joined \in {IF is_absolute(unwrapped) \/ (Len(unwrapped) >= 2 /\ unwrapped[2] = ":")
                    THEN ReplaceChar(unwrapped, "\\", "/")
                    ELSE path_join(base, ReplaceChar(unwrapped, "\\", "/"))}})

\* the content root as a string: <<>> for None
content_root_str(assets_root) ==
    IF assets_root = <<>> \/ path_parent(assets_root[1]) = <<>> THEN <<>>
    ELSE <<TrimEndOne(ReplaceChar(path_parent(assets_root[1])[1], "\\", "/"))>>

\* the copy is taken to succeed whenever it is attempted
copy_ok_assumed(fs, abs, assets_root) ==
    /\ assets_root # <<>>
    /\ file_name(abs) # <<>>

\* fs::copy is attempted and succeeds: the file is there and the assets
\* directory can be written
copy_ok(fs, abs, assets_root) ==
    /\ assets_root # <<>>
    /\ file_name(abs) # <<>>
    /\ abs \in fs.files
    /\ fs.writable

\* absolute_norm: the rewritten reference, the rule that gave it (via), the
\* resolved path (abs) and the filesystem after the call; assets_root is <<>>
\* for None and <<dir>> for Some(dir)
absolute_norm(fs, base, raw, assets_root, wrap_for_markdown) ==
    IF is_external(raw)
    THEN [text |-> raw, via |-> "external", abs |-> raw, fs |-> fs]
    ELSE Only({Only({
        LET Wrapped(p) == IF wrap_for_markdown /\ (u.had_angle \/ NeedsWrap(p))
                          THEN <<"<">> \o p \o <<">">> ELSE p
        IN  IF StartsWith(r.normalized_unwrapped, AssetsPrefix)
               \/ r.normalized_unwrapped = AssetsName
            THEN [text |-> Wrapped(<<"/">> \o TrimStartMatches(r.normalized_unwrapped, "/")),
                  via |-> "assets", abs |-> r.joined, fs |-> fs]
            ELSE IF root # <<>> /\ StartsWith(r.path_str, root[1])
            THEN Only({
                     [text |-> Wrapped(IF StartsWith(rel, <<"/">>) THEN rel ELSE <<"/">> \o rel),
                      via |-> "root", abs |-> r.path_str, fs |-> fs] :
                     rel \in {Drop(r.path_str, Len(root[1]))}})
            ELSE IF copy_ok(fs, r.abs, assets_root)
            THEN Only({
                     [text |-> Wrapped(RootAssetsPrefix \o fname),
                      via |-> "copied", abs |-> r.path_str,
                      fs |-> [fs EXCEPT !.files = @ \cup {path_join(assets_root[1], fname)}]] :
                     fname \in {AssetFileName(fs, r.abs, assets_root[1])}})
            ELSE [text |-> Wrapped(r.path_str), via |-> "absolute", abs |-> r.path_str,
                  fs |-> fs] :
        r \in {resolve_path(fs, base, u.unwrapped)},
        root \in {content_root_str(assets_root)}}) :
        u \in {unwrap_angle(raw)}})

(***************************************************************************)
(* utils/typst.rs: the three reference forms.  A match at offset i is <<>> *)
(* (none) or <<m>> with m.end the offset after the match.                  *)
(***************************************************************************)
Quotes == {"\"", "'"}

\* the offset of the first character of the set, or -1
FindAny(s, set) ==
    IF \E i \in 1..Len(s) : s[i] \in set
    THEN (CHOOSE i \in 1..Len(s) : s[i] \in set /\ \A j \in 1..(i - 1) : s[j] \notin set) - 1
    ELSE -1

\* re_md_img: !\[[^\]]*\]\(([^)]+)\)
md_img_at(s, i) ==
    LET t == Drop(s, i)
        afterBang == Drop(t, 2)
        j == Find(afterBang, "]")
        afterAlt == Drop(afterBang, j + 1)
        inner == Drop(afterAlt, 1)
        k == Find(inner, ")")
    IN  IF StartsWith(t, <<"!", "[">>) /\ j # -1 /\ StartsWith(afterAlt, <<"(">>) /\ k >= 1
        THEN <<[end |-> i + 2 + j + 2 + k + 1, inside |-> Take(inner, k)]>>
        ELSE <<>>

\* \s+src=(["'])([^"']+)(["'])([^>]*)> at the start of the text
html_img_tail(rest) ==
    LET w == Len(rest) - Len(TrimStart(rest))
        r1 == Drop(rest, w)
        r2 == Drop(r1, 4)
        r3 == Drop(r2, 1)
        v == FindAny(r3, Quotes)
        r4 == Drop(r3, v + 1)
        g == Find(r4, ">")
    IN  IF /\ w >= 1
           /\ StartsWith(r1, <<"s", "r", "c", "=">>)
           /\ r2 # <<>> /\ r2[1] \in Quotes
           /\ v >= 1
           /\ g # -1
        THEN <<[len |-> w + 4 + 1 + v + 1 + g + 1, quote |-> r2[1], src |-> Take(r3, v),
                after_quote |-> r3[v + 1], after |-> Take(r4, g)]>>
        ELSE <<>>

\* re_html_img: <img([^>]*?)\s+src=(["'])([^"']+)(["'])([^>]*)> with the
\* shortest text before the src attribute
html_img_at(s, i) ==
    LET t == Drop(s, i)
        u == Drop(t, 4)
        fits(b) == /\ \A x \in 1..b : u[x] # ">"
                   /\ html_img_tail(Drop(u, b)) # <<>>
    IN  IF StartsWith(t, <<"<", "i", "m", "g">>) /\ \E b \in 0..Len(u) : fits(b)
        THEN LET b == CHOOSE x \in 0..Len(u) : fits(x) /\ \A y \in 0..(x - 1) : ~fits(y)
                 tail == html_img_tail(Drop(u, b))[1]
             IN  <<[end |-> i + 4 + b + tail.len, before |-> Take(u, b),
                    quote |-> tail.quote, src |-> tail.src,
                    after_quote |-> tail.after_quote, after |-> tail.after]>>
        ELSE <<>>

FuncFig == <<"f", "i", "g">>
FuncImage == <<"i", "m", "a", "g", "e">>

\* re_raw_typst: #(fig|image)\(\s*(["'])([^"']+)(["'])
raw_typst_at(s, i) ==
    LET t == Drop(s, i)
        func == IF StartsWith(t, <<"#">> \o FuncFig \o <<"(">>) THEN FuncFig ELSE FuncImage
        r0 == Drop(t, 1 + Len(func) + 1)
        w == Len(r0) - Len(TrimStart(r0))
        r1 == Drop(r0, w)
        r2 == Drop(r1, 1)
        v == FindAny(r2, Quotes)
    IN  IF /\ StartsWith(t, <<"#">> \o func \o <<"(">>)
           /\ r1 # <<>> /\ r1[1] \in Quotes
           /\ v >= 1
        THEN <<[end |-> i + 1 + Len(func) + 1 + w + 1 + v + 1, func |-> func,
                quote |-> r1[1], path |-> Take(r2, v)]>>
        ELSE <<>>

match_at(form, s, i) ==
    IF form = "md" THEN md_img_at(s, i)
    ELSE IF form = "html" THEN html_img_at(s, i)
    ELSE raw_typst_at(s, i)

\* the offset at which the title is split off: the first blank or tab
\* outside double quotes, or -1
split_idx(inside) ==
    LET stops == {i \in 1..Len(inside) :
                     /\ inside[i] \in {" ", "\t"}
                     /\ Cardinality({j \in 1..(i - 1) : inside[j] = "\""}) % 2 = 0}
    IN  IF stops = {} THEN -1 ELSE (CHOOSE i \in stops : \A j \in stops : i <= j) - 1

\* the closure of replace_all for a Markdown image
md_img_replacement(fs, base, assets_root, m) ==
    Only({Only({Only({
        [text |-> <<"!", "[", "]", "(">> \o abs.text
                  \o (IF idx # -1 THEN <<" ">> \o Trim(Drop(inside, idx)) ELSE <<>>)
                  \o <<")">>,
         ref |-> [form |-> "md", raw |-> path_part, text |-> abs.text, via |-> abs.via,
                  abs |-> abs.abs],
         fs |-> abs.fs] :
        abs \in {absolute_norm(fs, base, path_part, assets_root, TRUE)}}) :
        idx \in {split_idx(inside)},
        path_part \in {IF split_idx(inside) = -1 THEN inside
                       ELSE Trim(Take(inside, split_idx(inside)))}}) :
        inside \in {Trim(m.inside)}})

\* the closure of replace_all for an HTML img tag
html_img_replacement(fs, base, assets_root, m) ==
    Only({
        [text |-> <<"<", "i", "m", "g">> \o m.before \o <<" ", "s", "r", "c", "=">>
                  \o <<m.quote>> \o abs.text \o <<m.after_quote>> \o m.after \o <<">">>,
         ref |-> [form |-> "html", raw |-> m.src, text |-> abs.text, via |-> abs.via,
                  abs |-> abs.abs],
         fs |-> abs.fs] :
        abs \in {absolute_norm(fs, base, m.src, assets_root, FALSE)}})

\* the closure of replace_all for a raw #fig / #image call
raw_typst_replacement(fs, base, assets_root, m) ==
    Only({
        [text |-> <<"#">> \o m.func \o <<"(">> \o <<m.quote>> \o abs.text \o <<m.quote>>,
         ref |-> [form |-> "raw", raw |-> m.path, text |-> abs.text, via |-> abs.via,
                  abs |-> abs.abs],
         fs |-> abs.fs] :
        abs \in {absolute_norm(fs, base, m.path, assets_root, FALSE)}})

replacement(form, fs, base, assets_root, m) ==
    IF form = "md" THEN md_img_replacement(fs, base, assets_root, m)
    ELSE IF form = "html" THEN html_img_replacement(fs, base, assets_root, m)
    ELSE raw_typst_replacement(fs, base, assets_root, m)

\* the offsets at which the form matches
match_offsets(form, s) == {i \in 0..(Len(s) - 1) : match_at(form, s, i) # <<>>}

\* Regex::replace_all: the matches from left to right, none overlapping
RECURSIVE replace_all(_, _, _, _, _)
replace_all(form, fs, base, assets_root, s) ==
    Only({
        IF offsets = {} THEN [text |-> s, refs |-> <<>>, fs |-> fs]
        ELSE Only({Only({Only({
                 [text |-> Take(s, i) \o rep.text \o rest.text,
                  refs |-> <<rep.ref>> \o rest.refs,
                  fs |-> rest.fs] :
                 rest \in {replace_all(form, rep.fs, base, assets_root, tail)}}) :
                 rep \in {replacement(form, fs, base, assets_root, m)},
                 tail \in {Drop(s, m.end)}}) :
                 i \in {k \in offsets : \A j \in offsets : k <= j},
                 m \in {match_at(form, s, k)[1] :
                           k \in {k \in offsets : \A j \in offsets : k <= j}}}) :
        offsets \in {match_offsets(form, s)}})

\* the rewritten text, the references in the order they were rewritten and
\* the filesystem after the call
rewrite_image_paths_in_markdown(fs, input_, base_dir, assets_root) ==
    Only({Only({Only({
        [text |-> raw.text, refs |-> md.refs \o html.refs \o raw.refs, fs |-> raw.fs] :
        raw \in {replace_all("raw", html.fs, base_dir, assets_root, html.text)}}) :
        html \in {replace_all("html", md.fs, base_dir, assets_root, md.text)}}) :
        md \in {replace_all("md", fs, base_dir, assets_root, input_)}})

(***************************************************************************)
(* rewrite_image_paths_in_markdown called on its own, and then once more   *)
(* on what it returned, on documents of up to MaxRefs lines.               *)
(***************************************************************************)
MaxRefs == 1

MdOpen == <<"!", "[", "a", "]", "(">>
MdImage(path) == MdOpen \o path \o <<")">>

PlainPath == <<"p", ".", "p", "n", "g">>
SpacedPath == <<"m", " ", "p", ".", "p", "n", "g">>
WrappedPaths == {PlainPath, SpacedPath}
OutsidePath == <<"/", "o", "/", "p", ".", "p", "n", "g">>

References ==
    {MdImage(PlainPath),
     MdImage(<<"<">> \o PlainPath \o <<">">>),
     MdImage(<<"<">> \o SpacedPath \o <<">">>),
     MdImage(<<"a", "s", "s", "e", "t", "s", "/", "p", ".", "p", "n", "g">>),
     MdImage(<<"/", "o", "/", "p", ".", "p", "n", "g", " ", "\"", "t", "\"">>),
     MdImage(<<"/", "a", "s", "s", "e", "t", "s", "/", "p", ".", "p", "n", "g">>),
     MdImage(<<"h", "t", "t", "p", ":", "/", "/", "x", "/", "p", ".", "p", "n", "g">>),
     <<"<", "i", "m", "g", " ", "s", "r", "c", "=", "\"", "m", " ", "p", ".", "p", "n", "g", "\"", ">">>,
     <<"#", "i", "m", "a", "g", "e", "(", "\"", "p", ".", "p", "n", "g", "\"", ")">>,
     MdImage(OutsidePath) \o <<"\n">> \o MdImage(PlainPath)}

BaseDirs == {<<"/", "c">>, <<"/", "c", "/", "m", " ", "d">>, <<"/", "c", "x">>}
AssetsDir == <<"/", "c", "/", "a", "s", "s", "e", "t", "s">>
AssetsRoots == {<<>>, <<AssetsDir>>}
CandidateFiles == {<<"/", "o", "/", "p", ".", "p", "n", "g">>, <<"/", "c", "/", "a", "s", "s", "e", "t", "s", "/", "p", ".", "p", "n", "g">>}
Filesystems == [files : SUBSET CandidateFiles, writable : BOOLEAN]

PathInit ==
    /\ NoCalls
    /\ fnInput \in {[fn |-> "rewrite_image_paths_in_markdown", text |-> d,
                     base_dir |-> b, assets_root |-> a, fs |-> fs] :
                      d \in {Join(refs) : refs \in SeqsUpTo(References, MaxRefs) \ {<<>>}},
                      b \in BaseDirs, a \in AssetsRoots, fs \in Filesystems}
    /\ fnOutput = NoOutput

RewriteImagePaths ==
    /\ fnInput.fn = "rewrite_image_paths_in_markdown"
    /\ fnOutput = NoOutput
    /\ \E r \in {rewrite_image_paths_in_markdown(fnInput.fs, fnInput.text,
                                                    fnInput.base_dir, fnInput.assets_root)} :
           fnOutput' = [fn |-> "rewrite_image_paths_in_markdown", value |-> r.text,
                        refs |-> r.refs, fs |-> r.fs, again |-> <<>>]
    /\ UNCHANGED <<orchestration, fnInput, components>>

\* the caller hands the returned text to the function once more
RewriteAgain ==
    /\ fnOutput.fn = "rewrite_image_paths_in_markdown"
    /\ fnOutput.again = <<>>
    /\ \E r \in {rewrite_image_paths_in_markdown(fnOutput.fs, fnOutput.value,
                                                    fnInput.base_dir, fnInput.assets_root)} :
           fnOutput' = [fnOutput EXCEPT
                           !.again = <<[value |-> r.text, refs |-> r.refs, fs |-> r.fs]>>]
    /\ UNCHANGED <<orchestration, fnInput, components>>

PathNext ==
    \/ RewriteImagePaths
    \/ RewriteAgain

SpecPath == PathInit /\ [][PathNext]_vars

Rewritten == fnOutput.fn = "rewrite_image_paths_in_markdown"

\* C18: rewriting the returned text once more returns it unchanged and
\* copies no further file into the assets directory.
C18_RewriteIsIdempotent ==
    (Rewritten /\ fnOutput.again # <<>>) =>
        /\ fnOutput.again[1].value = fnOutput.value
        /\ fnOutput.again[1].fs = fnOutput.fs

\* C19: a Markdown image whose path is wrapped in angle brackets is emitted
\* as the rewritten form of the whole text between the brackets, wrapped in
\* one pair of angle brackets; HTML and raw-directive references are never
\* wrapped.
C19_AngleBracketPathIsWhole ==
    Rewritten =>
        /\ \A p \in WrappedPaths :
               fnInput.text = MdImage(<<"<">> \o p \o <<">">>) =>
                   fnOutput.value =
                       <<"!", "[", "]", "(", "<">>
                       \o absolute_norm(fnInput.fs, fnInput.base_dir, p,
                                        fnInput.assets_root, FALSE).text
                       \o <<">", ")">>
        /\ \A i \in 1..Len(fnOutput.refs) :
               fnOutput.refs[i].form \in {"html", "raw"} =>
                   ~StartsWith(fnOutput.refs[i].text, <<"<">>)

\* the directory is the path or one of its ancestors
IsUnder(dir, path) ==
    LET d == Components(dir)
        p == Components(path)
    IN  Len(d) <= Len(p) /\ Take(p, Len(d)) = d

\* a reference text without its angle brackets
Unwrapped(text) ==
    IF StartsWith(text, <<"<">>) /\ EndsWith(text, <<">">>)
    THEN SubSeq(text, 2, Len(text) - 1) ELSE text

\* C20: a reference that is resolved against the filesystem is rewritten to
\* the root-relative path of its own location exactly when the content root,
\* the parent of assets_root, is an ancestor of its resolved path.
C20_RootRelativeIffUnderRoot ==
    Rewritten =>
        \A i \in 1..Len(fnOutput.refs) :
            LET r == fnOutput.refs[i]
                root == path_parent(fnInput.assets_root[1])[1]
            IN  r.via \in {"root", "copied", "absolute"} =>
                    IF fnInput.assets_root = <<>> THEN r.via # "root"
                    ELSE /\ r.via = "root" <=> IsUnder(root, r.abs)
                         /\ r.via = "root" => root \o Unwrapped(r.text) = r.abs

\* the copy of a resolved path into the assets directory can succeed
CopyPossible(abs) ==
    /\ fnInput.assets_root # <<>>
    /\ abs \in fnInput.fs.files
    /\ fnInput.fs.writable

FindStr(s, pat) ==
    IF Contains(s, pat)
    THEN CHOOSE k \in 0..(Len(s) - Len(pat)) :
             /\ StartsWith(Drop(s, k), pat)
             /\ \A j \in 0..(k - 1) : ~StartsWith(Drop(s, j), pat)
    ELSE -1

\* str::lines: no piece for a final newline, a final '\r' of a line dropped
str_lines(s) ==
    Only({[k \in 1..(IF pieces[Len(pieces)] = <<>> THEN Len(pieces) - 1 ELSE Len(pieces)) |->
              IF EndsWith(pieces[k], <<"\r">>) THEN Take(pieces[k], Len(pieces[k]) - 1)
              ELSE pieces[k]] :
          pieces \in {split(s)}})

calculate_hash(content) == [hash_of |-> content]

SectionPrefix == <<"s", "e", "c", "t", "i", "o", "n", "_">>
SectionId(section_counter) == SectionPrefix \o Decimal(section_counter)

MarkH1 == <<"#", " ">>
MarkH2 == <<"#", "#", " ">>
MarkPagebreak == <<"{", "p", "a", "g", "e", "b", "r", "e", "a", "k", "}">>
MarkNewpage == <<"\\", "n", "e", "w", "p", "a", "g", "e">>
MarkLabel == <<"\\", "l", "a", "b", "e", "l", "{">>
MarkRef == <<"\\", "r", "e", "f", "{">>
MarkCross == <<"{", "#">>
MarkBibliography == <<"b", "i", "b", "l", "i", "o", "g", "r", "a", "p", "h", "y", ":">>
MarkToc == <<"t", "o", "c", ":">>
MarkImage == <<"!", "[">>
MarkLink == <<"]", "(">>
MarkHttp == <<"h", "t", "t", "p">>
MarkIncludeOpen == <<"{", "{", "<", " ", "i", "n", "c", "l", "u", "d", "e", " ">>
MarkIncludeClose == <<" ", ">", "}", "}">>

affects_later_pages(content) ==
    \/ Contains(content, MarkH1)
    \/ Contains(content, MarkLabel)
    \/ Contains(content, MarkRef)
    \/ Contains(content, MarkCross)
    \/ Contains(content, MarkBibliography)
    \/ Contains(content, MarkToc)

\* the image path of a line: <<>> or <<path>>
dependency_image(line) ==
    Only({IF start = -1 \/ Find(Drop(line, start + 2), ")") = -1 THEN <<>>
          ELSE Only({IF StartsWith(path, MarkHttp) THEN <<>> ELSE <<path>> :
                     path \in {Take(Drop(line, start + 2),
                                    Find(Drop(line, start + 2), ")"))}}) :
          start \in {FindStr(line, MarkLink)}})

\* the include path of a line: <<>> or <<path>>
dependency_include(line) ==
    Only({IF start = -1 \/ FindStr(Drop(line, start), MarkIncludeClose) = -1 THEN <<>>
          ELSE <<Trim(SubSeq(line, start + 12 + 1,
                             start + FindStr(Drop(line, start), MarkIncludeClose)))>> :
          start \in {FindStr(line, MarkIncludeOpen)}})

extract_dependencies(content) ==
    Only({UNION {{dependency_image(lines[k])[j] : j \in 1..Len(dependency_image(lines[k]))}
                 \cup {dependency_include(lines[k])[j] :
                          j \in 1..Len(dependency_include(lines[k]))} :
                 k \in 1..Len(lines)} :
          lines \in {str_lines(content)}})

\* the path of the first image of a line: <<>> or <<path>>
global_dependency(line) ==
    Only({IF start = -1 \/ FindStr(Drop(line, start), MarkLink) = -1 THEN <<>>
          ELSE Only({IF Find(remaining, ")") = -1 THEN <<>>
                     ELSE Only({IF StartsWith(path, MarkHttp) \/ path = <<>> THEN <<>>
                                ELSE <<path>> :
                                path \in {Take(remaining, Find(remaining, ")"))}}) :
                     remaining \in {Drop(line, start + FindStr(Drop(line, start), MarkLink)
                                                + 2)}}) :
          start \in {FindStr(line, MarkImage)}})

extract_global_dependencies(content) ==
    Only({UNION {{global_dependency(lines[k])[j] : j \in 1..Len(global_dependency(lines[k]))} :
                 k \in 1..Len(lines)} :
          lines \in {str_lines(content)}})

is_page_break(line, section_counter) ==
    Only({\/ StartsWith(line_trimmed, MarkH1)
          \/ Contains(line_trimmed, MarkPagebreak)
          \/ StartsWith(line_trimmed, MarkNewpage)
          \/ (StartsWith(line_trimmed, MarkH2) /\ section_counter > 0) :
          line_trimmed \in {Trim(line)}})

\* the section of the lines from start up to, not including, end
PageSection(lines, start, end, section_counter) ==
    Only({[id |-> SectionId(section_counter),
           content_hash |-> calculate_hash(section_content),
           start_line |-> start,
           end_line |-> end - 1,
           dependencies |-> extract_dependencies(section_content),
           affects_later_pages |-> affects_later_pages(section_content)] :
          section_content \in {JoinWith(SubSeq(lines, start + 1, end), "\n")}})

RECURSIVE parse_sections_loop(_, _, _)
parse_sections_loop(lines, line_idx, acc) ==
    IF line_idx = Len(lines)
    THEN IF acc.current_section_start < Len(lines)
         THEN Append(acc.sections,
                     PageSection(lines, acc.current_section_start, Len(lines),
                                 acc.section_counter))
         ELSE acc.sections
    ELSE Only({parse_sections_loop(lines, line_idx + 1, next) :
               next \in {IF /\ is_page_break(lines[line_idx + 1], acc.section_counter)
                            /\ line_idx > acc.current_section_start
                         THEN [sections |->
                                   Append(acc.sections,
                                          PageSection(lines, acc.current_section_start,
                                                      line_idx, acc.section_counter)),
                               current_section_start |-> line_idx,
                               section_counter |-> acc.section_counter + 1]
                         ELSE acc}})

parse_sections(content) ==
    Only({parse_sections_loop(lines, 0, [sections |-> <<>>, current_section_start |-> 0,
                                         section_counter |-> 0]) :
          lines \in {str_lines(content)}})

\* the ids of the new sections that are new or changed, then the ids of the
\* old sections that are gone
find_changed_sections(old_sections, new_sections) ==
    LET old_ids == {old_sections[k].id : k \in 1..Len(old_sections)}
        new_ids == {new_sections[k].id : k \in 1..Len(new_sections)}
        old_of(id) == CHOOSE o \in {old_sections[k] : k \in 1..Len(old_sections)} : o.id = id
        ids(sections) == [k \in 1..Len(sections) |-> sections[k].id]
    IN  ids(SelectSeq(new_sections,
                      LAMBDA n : n.id \notin old_ids
                                 \/ old_of(n.id).content_hash # n.content_hash))
        \o ids(SelectSeq(old_sections, LAMBDA o : o.id \notin new_ids))

RecentSecs == 60

\* mtimes: dependency -> elapsed time since its modification
check_dependencies(deps, mtimes) ==
    \A dep \in deps : ~(mtimes[dep] # <<>> /\ mtimes[dep][1] < RecentSecs)

Skip == [decision |-> "Skip"]
RenderPartial(ids) == [decision |-> "RenderPartial", ids |-> ids]
RenderAll(why) == [decision |-> "RenderAll", why |-> why]

\* should_render from the fetch of the cache entry to its return when the
\* entry is there
incremental_analysis(cached, content, mtimes) ==
    IF /\ cached.content_hash = calculate_hash(content)
       /\ check_dependencies(cached.global_dependencies, mtimes)
    THEN Skip
    ELSE Only({Only({
             IF changed_sections = <<>> THEN Skip
             ELSE IF \E k \in 1..Len(changed_sections) :
                         \E s \in {sections[j] : j \in 1..Len(sections)} :
                             s.id = changed_sections[k] /\ s.affects_later_pages
             THEN RenderAll("Global changes detected")
             ELSE RenderPartial(changed_sections) :
             changed_sections \in {find_changed_sections(cached.sections, sections)}}) :
             sections \in {parse_sections(content)}})

DocumentCache(content) ==
    [content_hash |-> calculate_hash(content),
     sections |-> parse_sections(content),
     global_dependencies |-> extract_global_dependencies(content)]

(***************************************************************************)
(* The IncrementalRenderer under calls from two tasks.  A task runs from   *)
(* one completed await to the next in one step; the only await is          *)
(* DOCUMENT_CACHE.lock().                                                  *)
(***************************************************************************)
CachePath == <<"a", ".", "m", "d">>
ImagePath == <<"p", ".", "p", "n", "g">>
Contents ==
    {<<"#", " ", "A", "\n", "x">>,
     <<"#", " ", "A", "\n", "x", "\n", "#", " ", "B">>,
     <<"#", " ", "A", "\n", "y">>,
     <<"x", "\n", "{", "p", "a", "g", "e", "b", "r", "e", "a", "k", "}", "\n", "y">>,
     <<"x">>,
     <<"!", "[", "a", "]", "(", "p", ".", "p", "n", "g", ")">>,
     <<"!", "[", "a", "]", "(", "p", ".", "p", "n", "g", ")", "\n">>}

\* a file without metadata, one modified within the last minute, an older one
ElapsedTimes == {<<>>, <<RecentSecs - 1>>, <<RecentSecs>>}
ModificationTimes == [{ImagePath} -> ElapsedTimes]

\* IncrementalRenderer::new: the map is what render_cache.json holds
IncInit ==
    /\ NoRenders
    /\ fnInput = NoInput
    /\ fnOutput = NoOutput
    /\ NoCover
    /\ NoWatcher
    /\ NoPreferences
    /\ cacheFile \in {<<>>} \cup {<<[file_path \in {CachePath} |-> <<DocumentCache(c)>>]>> :
                                     c \in Contents}
    /\ documentCache = IF cacheFile = <<>> THEN [file_path \in {CachePath} |-> <<>>]
                       ELSE cacheFile[1]
    /\ cacheLock = NoTask
    /\ irPc = [t \in Tasks |-> "idle"]
    /\ irCall = [t \in Tasks |-> <<>>]
    /\ irResult = [t \in Tasks |-> <<>>]

notIncremental == <<orchestration, pure, preferences, watcher, cover>>

\* should_render up to its first await
ShouldRender_Call(t) ==
    /\ irPc[t] = "idle"
    /\ \E content \in Contents, mtimes \in ModificationTimes :
           irCall' = [irCall EXCEPT ![t] = [method |-> "should_render",
                                            file_path |-> CachePath,
                                            content |-> content, mtimes |-> mtimes]]
    /\ irPc' = [irPc EXCEPT ![t] = "lock"]
    /\ UNCHANGED <<documentCache, cacheLock, cacheFile, irResult, notIncremental>>

\* update_cache up to its first await
UpdateCache_Call(t) ==
    /\ irPc[t] = "idle"
    /\ \E content \in Contents :
           irCall' = [irCall EXCEPT ![t] = [method |-> "update_cache",
                                            file_path |-> CachePath,
                                            content |-> content,
                                            mtimes |-> [d \in {ImagePath} |-> <<>>]]]
    /\ irPc' = [irPc EXCEPT ![t] = "lock"]
    /\ UNCHANGED <<documentCache, cacheLock, cacheFile, irResult, notIncremental>>

\* from the guard of the method to its return or to the await in save_cache:
\* the guard is dropped on return and kept across save_cache
MethodBody(t) ==
    IF irCall[t].method = "should_render" /\ documentCache[irCall[t].file_path] # <<>>
    THEN /\ \E decision \in {incremental_analysis(documentCache[irCall[t].file_path][1],
                                                  irCall[t].content, irCall[t].mtimes)} :
                irResult' = [irResult EXCEPT ![t] = <<decision>>]
         /\ irPc' = [irPc EXCEPT ![t] = "done"]
         /\ UNCHANGED <<documentCache, cacheLock, cacheFile>>
    ELSE /\ \E doc_cache \in {DocumentCache(irCall[t].content)} :
                documentCache' = [documentCache EXCEPT ![irCall[t].file_path] = <<doc_cache>>]
         /\ cacheLock' = t
         /\ irPc' = [irPc EXCEPT ![t] = "save_cache"]
         /\ UNCHANGED <<cacheFile, irResult>>

\* save_cache from its guard to the return of the method that called it
SaveCacheBody(t) ==
    /\ \E written \in BOOLEAN :
           IF written
           THEN /\ cacheFile' = <<documentCache>>
                /\ irResult' = [irResult EXCEPT ![t] =
                                   IF irCall[t].method = "should_render"
                                   THEN <<RenderAll("No cache data")>> ELSE <<"Ok">>]
           ELSE /\ cacheFile' = cacheFile
                /\ irResult' = [irResult EXCEPT ![t] = <<"Err">>]
    /\ cacheLock' = NoTask
    /\ irPc' = [irPc EXCEPT ![t] = "done"]
    /\ UNCHANGED documentCache

\* DOCUMENT_CACHE.lock().await completes: the mutex is free, whoever asks
CacheLocked(t) ==
    /\ irPc[t] \in {"lock", "save_cache"}
    /\ cacheLock = NoTask
    /\ IF irPc[t] = "lock" THEN MethodBody(t) ELSE SaveCacheBody(t)
    /\ UNCHANGED <<irCall, notIncremental>>

IncNext ==
    \E t \in Tasks :
        \/ ShouldRender_Call(t)
        \/ UpdateCache_Call(t)
        \/ CacheLocked(t)

SpecInc == IncInit /\ [][IncNext]_vars

\* the runtime runs every task that can run
SpecIncFair == SpecInc /\ \A t \in Tasks : WF_vars(CacheLocked(t))

\* task t returns from should_render in this step, having found an entry
DecidesWithEntry(t) ==
    /\ irPc[t] = "lock"
    /\ irPc'[t] = "done"
    /\ irCall[t].method = "should_render"
    /\ documentCache[irCall[t].file_path] # <<>>

\* no tracked dependency of the entry was modified within the last minute
NoRecentDependency(entry, mtimes) ==
    \A dep \in entry.global_dependencies :
        mtimes[dep] = <<>> \/ mtimes[dep][1] >= RecentSecs

\* C22: should_render returns Skip exactly when the path has a cache entry
\* whose content hash is the hash of the content and none of whose tracked
\* dependencies was modified within the last 60 seconds.
C22_SkipIffUnchanged ==
    [][\A t \in Tasks :
           DecidesWithEntry(t) =>
               (irResult'[t] = <<Skip>>
                   <=> /\ documentCache[irCall[t].file_path][1].content_hash
                              = calculate_hash(irCall[t].content)
                       /\ NoRecentDependency(documentCache[irCall[t].file_path][1],
                                             irCall[t].mtimes))]_vars

\* the sections by id
SectionIds(sections) == {sections[k].id : k \in 1..Len(sections)}
SectionOf(sections, id) == CHOOSE s \in {sections[k] : k \in 1..Len(sections)} : s.id = id

\* the ids that are added, removed or carry another hash
ChangedIds(old, new) ==
    {id \in SectionIds(old) \cup SectionIds(new) :
        \/ id \notin SectionIds(old)
        \/ id \notin SectionIds(new)
        \/ SectionOf(old, id).content_hash # SectionOf(new, id).content_hash}

\* the flag of a changed section: of the new section, or of the removed one
AffectsLater(old, new, id) ==
    IF id \in SectionIds(new) THEN SectionOf(new, id).affects_later_pages
    ELSE SectionOf(old, id).affects_later_pages

\* C23: with a cache entry and a decision other than Skip, should_render
\* returns RenderAll when a changed section (added, removed or with another
\* hash) is flagged as affecting later pages, and otherwise RenderPartial
\* with exactly the ids of the changed sections.
C23_AllOrPartial ==
    [][\A t \in Tasks :
           (DecidesWithEntry(t) /\ irResult'[t] # <<Skip>>) =>
               LET old == documentCache[irCall[t].file_path][1].sections
                   new == parse_sections(irCall[t].content)
                   decision == irResult'[t][1]
               IN  IF \E id \in ChangedIds(old, new) : AffectsLater(old, new, id)
                   THEN decision.decision = "RenderAll"
                   ELSE /\ decision.decision = "RenderPartial"
                        /\ Len(decision.ids) = Cardinality(ChangedIds(old, new))
                        /\ {decision.ids[k] : k \in 1..Len(decision.ids)}
                               = ChangedIds(old, new)]_vars

\* task t has called a method that writes the cache
WritesCache(t) ==
    /\ irPc[t] = "lock"
    /\ \/ irCall[t].method = "update_cache"
       \/ documentCache[irCall[t].file_path] = <<>>

\* C24: every call of update_cache, and every call of should_render for a
\* path without a cache entry, returns: the map then holds an entry for the
\* path, render_cache.json mirrors the map and the mutex is released.
C24_CacheWritesComplete ==
    \A t \in Tasks :
        WritesCache(t) ~>
            /\ irPc[t] = "done"
            /\ cacheLock # t
            /\ documentCache[irCall[t].file_path] # <<>>
            /\ cacheFile # <<>>

\* C25: the LAST_RENDER_TIMES mutex is not held while the compiler
\* subprocess of a render runs.
C25_TimesLockNotHeldAcrossCompile ==
    \A t \in Tasks : proc[t].state = "running" => timesLock # t

\* the text that inject_anchors was given and the text it returned
Injected == Only({[input |-> i, output |-> fnOutput.value.markdown,
                   anchors |-> fnOutput.value.anchors] :
                      i \in {cmarker_fixed(fnInput.markdown)}})

\* the label line of an anchor
LabelLine(a) == LabelOpen \o a.id \o LabelClose

\* 1 when the anchor's offset is not at the start of a line of the input
AddedNewline(input, a) ==
    IF a.offset > 0 /\ input[a.offset] # "\n" THEN 1 ELSE 0

\* the positions of the output taken by the anchor's markup
MarkupPositions(j, a) ==
    Only({(at - AddedNewline(j.input, a) + 1)..(at + Len(LabelLine(a))) :
             at \in {FindStr(j.output, LabelLine(a))}})

\* the output without the markup of its anchors
WithoutMarkup(j) ==
    Only({[k \in 1..Len(kept) |-> j.output[kept[k]]] :
             kept \in {SelectSeq([i \in 1..Len(j.output) |-> i],
                         LAMBDA i : \A n \in 1..Len(j.anchors) :
                                       i \notin MarkupPositions(j, j.anchors[n]))}})

\* C26: in the output of inject_anchors the markup of every anchor is a line
\* of its own that stands immediately before the text that was at the
\* anchor's offset in the input, and the output without the markup (and
\* without the newline added before a markup not at a line start) is the
\* input.
C26_MarkupOnOwnLine ==
    Preprocessed =>
        \A j \in {Injected} :
            /\ \A n \in 1..Len(j.anchors) :
                   \A a \in {j.anchors[n]} :
                       \A at \in {FindStr(j.output, LabelLine(a))} :
                           /\ at >= 0
                           /\ at = 0 \/ j.output[at] = "\n"
                           /\ a.offset < Len(j.input) =>
                                  j.output[at + Len(LabelLine(a)) + 1]
                                      = j.input[a.offset + 1]
                           /\ AddedNewline(j.input, a) = 1 =>
                                  j.output[at - 1] = j.input[a.offset]
            /\ WithoutMarkup(j) = j.input

\* a document with an anchor in the middle of a line and an anchor after it
C26_Witness ==
    /\ Preprocessed
    /\ \E j \in {Injected} :
           /\ \E n \in 1..Len(j.anchors) : AddedNewline(j.input, j.anchors[n]) = 1
           /\ \E n \in 1..Len(j.anchors) :
                  /\ j.anchors[n].offset > 0
                  /\ AddedNewline(j.input, j.anchors[n]) = 0
           /\ WithoutMarkup(j) = j.input

(***************************************************************************)
(* The insertion step of inject_anchors (preprocessor.rs 278-282) on the   *)
(* pairs collected for every document of up to MaxLines lines, taken in    *)
(* every order.                                                            *)
(***************************************************************************)
\* the pairs pushed to insertions before the sort
collected_insertions(markdown) ==
    inject_anchors_loop(markdown, Parser(markdown), inject_anchors_init(markdown)).insertions

\* the sequences that hold every element of the set once
RECURSIVE Orderings(_)
Orderings(S) ==
    IF S = {} THEN {<<>>}
    ELSE UNION {{<<x>> \o rest : rest \in Orderings(S \ {x})} : x \in S}

InsInit ==
    /\ NoCalls
    /\ fnInput \in UNION {
           {[fn |-> "apply_insertions", markdown |-> d, collected |-> c, insertions |-> o] :
               o \in Orderings({c[k] : k \in 1..Len(c)})} :
           <<d, c>> \in {<<text, collected_insertions(text)>> :
                           text \in Documents(PreLines, MaxLines)}}
    /\ fnOutput = NoOutput

ApplyInsertions ==
    /\ fnInput.fn = "apply_insertions"
    /\ fnOutput = NoOutput
    /\ fnOutput' = [fn |-> "apply_insertions",
                    value |-> apply_insertions(fnInput.markdown,
                                               sort_by_offset(fnInput.insertions))]
    /\ UNCHANGED <<orchestration, fnInput, components>>

InsNext == ApplyInsertions

SpecIns == InsInit /\ [][InsNext]_vars

\* C27: sorting by offset and inserting in descending order gives the same
\* string for every order in which the same pairs were collected.
C27_OrderOfCollectionIrrelevant ==
    fnOutput.fn = "apply_insertions" =>
        fnOutput.value = apply_insertions(fnInput.markdown, sort_by_offset(fnInput.collected))

\* three pairs or more, handed over in another order than they were collected in
C27_Witness ==
    /\ fnOutput.fn = "apply_insertions"
    /\ Len(fnInput.insertions) >= 3
    /\ fnInput.insertions # fnInput.collected
    /\ fnInput.insertions[1].offset > fnInput.insertions[2].offset

(***************************************************************************)
(* preferences.rs: the commands get_preferences, set_preferences and       *)
(* apply_preferences, each run by a task of the multi-threaded runtime.    *)
(* A step is one file-system call or one atomic operation; no lock is      *)
(* taken anywhere in these commands. Every file-system call succeeds.      *)
(***************************************************************************)
\* the fields of Preferences that the events carry
DefaultPreferences == [toc |-> FALSE, number_sections |-> TRUE]

\* the preferences the frontend sends
SentPreferences ==
    {[toc |-> TRUE, number_sections |-> TRUE], [toc |-> FALSE, number_sections |-> FALSE]}

\* commands begin while fewer than MaxWrites versions have been given out
MaxWrites == 2

NoPrefsCall == [method |-> "none", preferences |-> DefaultPreferences, saves |-> 0]

PrefsInit ==
    /\ NoRenders
    /\ fnInput = NoInput
    /\ fnOutput = NoOutput
    /\ NoCover
    /\ NoWatcher
    /\ NoRenderer
    /\ prefsFile \in {<<>>} \cup {<<p>> : p \in SentPreferences}
    /\ prefsVersion = 0
    /\ prefsWrites = <<>>
    /\ pfPc = [t \in Tasks |-> "idle"]
    /\ pfCall = [t \in Tasks |-> NoPrefsCall]

notPreferences == <<orchestration, pure, incremental, watcher, cover>>

\* set_preferences: save_preferences_to_file, then apply_preferences_internal,
\* which saves the same preferences again
SetPreferences_Call(t) ==
    /\ pfPc[t] = "idle"
    /\ prefsVersion < MaxWrites
    /\ \E p \in SentPreferences :
           pfCall' = [pfCall EXCEPT ![t] =
                         [method |-> "set_preferences", preferences |-> p, saves |-> 2]]
    /\ pfPc' = [pfPc EXCEPT ![t] = "write"]
    /\ UNCHANGED <<prefsFile, prefsVersion, prefsWrites, notPreferences>>

\* apply_preferences: get_preferences, then apply_preferences_internal
ApplyPreferences_Call(t) ==
    /\ pfPc[t] = "idle"
    /\ prefsVersion < MaxWrites
    /\ pfCall' = [pfCall EXCEPT ![t] =
                     [method |-> "apply_preferences", preferences |-> DefaultPreferences,
                      saves |-> 1]]
    /\ pfPc' = [pfPc EXCEPT ![t] = "exists"]
    /\ UNCHANGED <<prefsFile, prefsVersion, prefsWrites, notPreferences>>

GetPreferences_Call(t) ==
    /\ pfPc[t] = "idle"
    /\ prefsVersion < MaxWrites
    /\ pfCall' = [pfCall EXCEPT ![t] =
                     [method |-> "get_preferences", preferences |-> DefaultPreferences,
                      saves |-> 0]]
    /\ pfPc' = [pfPc EXCEPT ![t] = "exists"]
    /\ UNCHANGED <<prefsFile, prefsVersion, prefsWrites, notPreferences>>

\* get_preferences: prefs_path.exists(); without the file the defaults are
\* saved and returned
GP_Exists(t) ==
    /\ pfPc[t] = "exists"
    /\ IF prefsFile = <<>>
       THEN /\ pfCall' = [pfCall EXCEPT ![t].preferences = DefaultPreferences,
                                        ![t].saves = @ + 1]
            /\ pfPc' = [pfPc EXCEPT ![t] = "write"]
       ELSE /\ pfCall' = pfCall
            /\ pfPc' = [pfPc EXCEPT ![t] = "read"]
    /\ UNCHANGED <<prefsFile, prefsVersion, prefsWrites, notPreferences>>

\* get_preferences: fs::read_to_string and the parse; the prefs-read event
\* carries the version without advancing it
GP_Read(t) ==
    /\ pfPc[t] = "read"
    /\ pfCall' = [pfCall EXCEPT ![t].preferences = prefsFile[1]]
    /\ pfPc' = [pfPc EXCEPT ![t] = IF pfCall[t].saves = 0 THEN "idle" ELSE "write"]
    /\ UNCHANGED <<prefsFile, prefsVersion, prefsWrites, notPreferences>>

\* save_preferences_to_file: fs::write
SP_Write(t) ==
    /\ pfPc[t] = "write"
    /\ prefsFile' = <<pfCall[t].preferences>>
    /\ pfPc' = [pfPc EXCEPT ![t] = "fetch_add"]
    /\ UNCHANGED <<prefsVersion, prefsWrites, pfCall, notPreferences>>

\* save_preferences_to_file: PREFS_VERSION.fetch_add(1) + 1 and the
\* prefs-write event with that version; the command goes on to its next
\* save or returns
SP_FetchAdd(t) ==
    /\ pfPc[t] = "fetch_add"
    /\ prefsFile' = prefsFile
    /\ prefsVersion' = prefsVersion + 1
    /\ prefsWrites' = Append(prefsWrites,
                             [toc |-> pfCall[t].preferences.toc,
                              numberSections |-> pfCall[t].preferences.number_sections,
                              version |-> prefsVersion + 1])
    /\ pfCall' = [pfCall EXCEPT ![t].saves = @ - 1]
    /\ pfPc' = [pfPc EXCEPT ![t] = IF pfCall[t].saves = 1 THEN "idle" ELSE "write"]
    /\ UNCHANGED notPreferences

PrefsNext ==
    \E t \in Tasks :
        \/ SetPreferences_Call(t)
        \/ ApplyPreferences_Call(t)
        \/ GetPreferences_Call(t)
        \/ GP_Exists(t)
        \/ GP_Read(t)
        \/ SP_Write(t)
        \/ SP_FetchAdd(t)

SpecPrefs == PrefsInit /\ [][PrefsNext]_vars

\* C28: no two prefs-write events carry the same version, and once every
\* command has returned the event with the highest version carries the
\* preferences that prefs.json holds.
C28_VersionsFollowWrites ==
    /\ \A i, j \in 1..Len(prefsWrites) :
           i # j => prefsWrites[i].version # prefsWrites[j].version
    /\ ((\A t \in Tasks : pfPc[t] = "idle") /\ prefsWrites # <<>>) =>
           \E i \in 1..Len(prefsWrites) :
               /\ \A j \in 1..Len(prefsWrites) :
                      prefsWrites[j].version <= prefsWrites[i].version
               /\ prefsFile = <<[toc |-> prefsWrites[i].toc,
                                 number_sections |-> prefsWrites[i].numberSections]>>

(***************************************************************************)
(* file_watcher.rs: the watcher thread, which scans the content directory, *)
(* sleeps and scans again, and the user who writes and removes files.      *)
(* Times are in milliseconds and are counted up to MaxAge.                 *)
(***************************************************************************)
DEBOUNCE_MS == 400
SleepMs == 1000

\* ages of MaxAge and more are not told apart
MaxAge == 1000

\* the user writes or removes files up to MaxEdits times
MaxEdits == 2

\* a markdown file of the content directory and a temporary file of the build
WatchPaths ==
    {<<"/", "c", "/", "a", ".", "m", "d">>,
     <<"/", "c", "/", ".", "b", "u", "i", "l", "d", "/", "t", ".", "M", "D">>}

\* the time from the moment a timer is set in a scan to the Instant::now()
\* that follows the scan: less than a millisecond, or longer than the debounce
ScanDurations == {0, DEBOUNCE_MS + 1}

is_watchable_file(path) ==
    /\ file_name(path) # <<>>
    /\ to_lowercase(extension(file_name(path)[1])) = <<"m", "d">>
    /\ ~Contains(path, <<".", "b", "u", "i", "l", "d">>)

\* an age after ms more milliseconds
Later(age, ms) == IF age + ms > MaxAge THEN MaxAge ELSE age + ms

\* the ages of all files and timers after ms more milliseconds
Advance(ages, ms) ==
    [f \in WatchPaths |-> IF ages[f] = -1 THEN -1 ELSE Later(ages[f], ms)]
AdvanceTimers(timers, ms) ==
    [f \in WatchPaths |-> IF timers[f] = <<>> THEN <<>> ELSE <<Later(timers[f][1], ms)>>]

WatchInit ==
    /\ NoRenders
    /\ fnInput = NoInput
    /\ fnOutput = NoOutput
    /\ NoCover
    /\ NoRenderer
    /\ NoPreferences
    /\ fileAge \in [WatchPaths -> {-1, MaxAge}]
    /\ lastModifiedTimes = {}
    /\ debounceTimers = [f \in WatchPaths |-> <<>>]
    /\ spawnedEmits = {}
    /\ unreported = [f \in WatchPaths |-> FALSE]
    /\ edits = 0
    /\ wPc = "init"

notWatcher == <<orchestration, pure, incremental, preferences, cover>>

\* the paths that the watcher looks at
Watchable == {f \in WatchPaths : is_watchable_file(f)}

\* the watchable files that the walk of the content directory meets
Walked == {f \in Watchable : fileAge[f] # -1}

\* initialize_file_times
W_Initialize ==
    /\ wPc = "init"
    /\ lastModifiedTimes' = Walked
    /\ wPc' = "check"
    /\ UNCHANGED <<fileAge, debounceTimers, spawnedEmits, unreported, edits, notWatcher>>

\* the walk of check_for_changes: every known file that is met gets a new
\* timer, changed or not
scan_timers(timers) ==
    [f \in WatchPaths |->
        IF f \in Walked /\ f \in lastModifiedTimes THEN <<0>> ELSE timers[f]]

\* check_for_changes: the walk, the expired timers, and a task spawned for
\* each of them
W_Check ==
    /\ wPc = "check"
    /\ \E ms \in ScanDurations :
         \E timers \in {AdvanceTimers(scan_timers(debounceTimers), ms)} :
           \E files_to_render \in {{f \in WatchPaths :
                                       timers[f] # <<>> /\ timers[f][1] > DEBOUNCE_MS}} :
               /\ debounceTimers' = [f \in WatchPaths |->
                                        IF f \in files_to_render THEN <<>> ELSE timers[f]]
               /\ spawnedEmits' = spawnedEmits \cup files_to_render
               /\ fileAge' = Advance(fileAge, ms)
    /\ lastModifiedTimes' = lastModifiedTimes \cup Walked
    /\ wPc' = "sleep"
    /\ UNCHANGED <<unreported, edits, notWatcher>>

\* thread::sleep(Duration::from_millis(1000))
W_Sleep ==
    /\ wPc = "sleep"
    /\ fileAge' = Advance(fileAge, SleepMs)
    /\ debounceTimers' = AdvanceTimers(debounceTimers, SleepMs)
    /\ wPc' = "check"
    /\ UNCHANGED <<lastModifiedTimes, spawnedEmits, unreported, edits, notWatcher>>

\* a spawned task runs: app_handle.emit("file-changed", path)
W_Emit(f) ==
    /\ f \in spawnedEmits
    /\ spawnedEmits' = spawnedEmits \ {f}
    /\ unreported' = [unreported EXCEPT ![f] = FALSE]
    /\ UNCHANGED <<fileAge, lastModifiedTimes, debounceTimers, edits, wPc, notWatcher>>

\* the user saves a file
U_Write(f) ==
    /\ edits < MaxEdits
    /\ edits' = edits + 1
    /\ fileAge' = [fileAge EXCEPT ![f] = 0]
    /\ unreported' = [unreported EXCEPT ![f] = TRUE]
    /\ UNCHANGED <<lastModifiedTimes, debounceTimers, spawnedEmits, wPc, notWatcher>>

\* the user removes a file
U_Remove(f) ==
    /\ edits < MaxEdits
    /\ fileAge[f] # -1
    /\ edits' = edits + 1
    /\ fileAge' = [fileAge EXCEPT ![f] = -1]
    /\ UNCHANGED <<lastModifiedTimes, debounceTimers, spawnedEmits, unreported, wPc, notWatcher>>

WatcherThread == W_Initialize \/ W_Check \/ W_Sleep

WatchNext ==
    \/ W_Initialize
    \/ W_Check
    \/ W_Sleep
    \/ \E f \in WatchPaths : W_Emit(f) \/ U_Write(f) \/ U_Remove(f)

SpecWatch == WatchInit /\ [][WatchNext]_vars

\* the watcher thread keeps running and the runtime runs every spawned task
SpecWatchFair ==
    /\ SpecWatch
    /\ WF_vars(WatcherThread)
    /\ \A f \in WatchPaths : WF_vars(W_Emit(f))

\* C29: a watched .md file that was changed and has then been left unchanged
\* for longer than the debounce is eventually reported by a file-changed
\* event.
C29_ChangeIsReported ==
    \A f \in WatchPaths :
        (/\ f \in Watchable
         /\ f \in lastModifiedTimes
         /\ unreported[f]
         /\ fileAge[f] > DEBOUNCE_MS)
            ~> ~unreported[f]

(***************************************************************************)
(* render_pipeline.rs: setup_prefs and handle_cover_image, run once per    *)
(* render under the render lock, with a prefs.json that nobody changes.    *)
(* Every file-system call succeeds.                                        *)
(***************************************************************************)
\* the content directory and a directory outside it
CoverContentDir == <<"/", "c">>
PicOutside == <<"/", "o", "/", "p", "i", "c", ".", "p", "n", "g">>
PicRelative == <<"p", "i", "c", ".", "p", "n", "g">>
PicInContent == <<"/", "c", "/", "p", "i", "c", ".", "p", "n", "g">>
PicInAssets == <<"/", "a", "s", "s", "e", "t", "s", "/", "p", "i", "c", ".", "p", "n", "g">>

\* no cover image, one in /assets/, an absolute path, a relative path
CoverImages == {<<>>, PicInAssets, PicOutside, PicRelative}

\* the formats detect_image_format tells apart here, and none
ImageFormats == {<<>>, <<<<"p", "n", "g">>>>, <<<<"j", "p", "g">>>>}

\* the renders of one run
MaxRenders == 3

\* the deduplication loop gives up after this many names
DedupLimit == 1000

\* format!("{}.{}", stem, ext) and format!("{}-{}.{}", stem, counter, ext)
cover_name(stem, ext) == sanitize_filename(stem \o <<".">> \o ext)
cover_name_n(stem, counter, ext) ==
    sanitize_filename(stem \o <<"-">> \o Decimal(counter) \o <<".">> \o ext)

\* while dest.exists() { ... }
RECURSIVE dedup_name(_, _, _, _, _)
dedup_name(fname, stem, ext, counter, assets) ==
    IF fname \notin assets THEN fname
    ELSE IF counter + 1 > DedupLimit THEN cover_name_n(stem, counter, ext)
    ELSE dedup_name(cover_name_n(stem, counter, ext), stem, ext, counter + 1, assets)

\* the path handle_cover_image looks for
cover_img_path(ci, existing) ==
    IF ~is_absolute(ci) /\ path_join(CoverContentDir, ci) \in existing
    THEN path_join(CoverContentDir, ci)
    ELSE ci

\* handle_cover_image: the files of the assets directory and the
\* cover_image of the preferences afterwards
handle_cover_image(ci, existing, format, assets) ==
    IF ci = <<>> \/ StartsWith(ci, RootAssetsPrefix) \/ cover_img_path(ci, existing) \notin existing
    THEN [assets |-> assets, cover_image |-> ci]
    ELSE Only({[assets |-> assets \cup {fname}, cover_image |-> RootAssetsPrefix \o fname] :
                  fname \in {Only({dedup_name(cover_name(stem, ext), stem, ext, 1, assets) :
                      <<stem, ext>> \in {Only({<<file_stem(name),
                                                 IF format # <<>> THEN format[1]
                                                 ELSE IF extension(name) # <<>>
                                                 THEN extension(name)
                                                 ELSE <<"j", "p", "g">>>> :
                                 name \in {file_name(cover_img_path(ci, existing))[1]}})}})}})

CoverInit ==
    /\ NoRenders
    /\ fnInput = NoInput
    /\ fnOutput = NoOutput
    /\ NoRenderer
    /\ NoPreferences
    /\ NoWatcher
    /\ coverImage \in CoverImages
    /\ imageFiles \in SUBSET {PicOutside, PicInContent}
    /\ imageFormat \in ImageFormats
    /\ assetsFiles \in SUBSET {PicRelative}
    /\ buildCover = <<>>
    /\ renders = 0

notCover == <<orchestration, pure, incremental, preferences, watcher>>

\* setup_prefs of one render
SetupPrefs ==
    /\ renders < MaxRenders
    /\ renders' = renders + 1
    /\ \E r \in {handle_cover_image(coverImage, imageFiles, imageFormat, assetsFiles)} :
           /\ assetsFiles' = r.assets
           /\ buildCover' = <<r.cover_image>>
    /\ UNCHANGED <<coverImage, imageFiles, imageFormat, notCover>>

CoverNext == SetupPrefs

SpecCover == CoverInit /\ [][CoverNext]_vars

\* C30: with unchanged preferences that name a cover image outside
\* /assets/, a render after the first adds no file to the assets directory.
C30_NoFurtherCopies ==
    [][(renders >= 1 /\ ~StartsWith(coverImage, RootAssetsPrefix)) =>
           assetsFiles' = assetsFiles]_vars

====
